---- MODULE Spec2Model ----
(***************************************************************************)
(* Model of posify: the barcode encoder (src/src/barcode.rs) and the       *)
(* Printer command stream (src/src/printer.rs).                            *)
(*                                                                         *)
(* Text is a sequence of bytes (the UTF-8 bytes of a Rust String); a       *)
(* Result is a record [tag |-> "Ok" | "Err" | "Panic", val |-> ...].       *)
(* Every operation is one action; its inputs, the transport's behaviour    *)
(* included, are recorded in args, the buffers it hands to the transport   *)
(* in wire, its return value in ret.                                       *)
(***************************************************************************)
EXTENDS Integers, Sequences, FiniteSets

VARIABLES printer, op, args, ret, wire, errors, buffer

vars == <<printer, op, args, ret, wire, errors, buffer>>

(***************************************************************************)
(* Bounds of the model.                                                    *)
(***************************************************************************)
\* longest text given to to_codeset_c
MaxLen == 4
\* longest text given to the barcode operation
MaxCodeLen == 2
\* longest reply (in bytes) the device sends to a dialect A status read
MaxReply == 4
\* longest reply (in bytes) the device sends to one dialect C status poll
MaxXfer == 2
\* the transport fails at its k-th write of a call, for k up to MaxFailAt
MaxFailAt == 6
\* the longest chain of chained calls
MaxChain == 2
\* the widest image, in pixels
MaxWidth == 2
\* the most selector methods called on one Barcode value
MaxEncode == 2

(***************************************************************************)
(* Values.                                                                 *)
(***************************************************************************)
SupportedPrinters == {"SNBC", "P3", "Epic", "Unknown"}

BarcodeType ==
    {"UPCA", "UPCE", "EAN13", "EAN8", "CODE39", "ITF", "Code93", "Codabar",
     "Code128", "PDF417", "QRCode", "Maxicode", "GS1"}

TextPosition == {"Off", "Above", "Below", "Both"}

Font == {"Standard", "Compressed", "FontA", "FontB"}

Ok(v) == [tag |-> "Ok", val |-> v]

Err(e) == [tag |-> "Err", val |-> e]

Panic == [tag |-> "Panic", val |-> "unwrap"]

\* u8 arithmetic
Shr(b, k) == b \div (2 ^ k)

BitAnd1(b) == b % 2

BitAnd3(b) == b % 4

AsU8(n) == n % 256

\* all sequences over S of length 0..n
SeqsUpTo(S, n) == UNION {[1..k -> S] : k \in 0..n}

\* the bytes 0..255 whose set bits all lie in mask
BytesOver(mask) ==
    {b \in 0..255 : \A k \in 0..7 : BitAnd1(Shr(b, k)) = 1 => k \in mask}

(***************************************************************************)
(* barcode.rs: the Barcode encoder.                                        *)
(***************************************************************************)
is_ascii_digit(c) == c \in 48..57

\* str::parse::<u8>() of a slice: an optional '+', then one or more digits,
\* the value at most 255.
RECURSIVE digits_value(_, _)
digits_value(s, acc) ==
    IF s = <<>> THEN acc ELSE digits_value(Tail(s), 10 * acc + (Head(s) - 48))

parse_u8(s) ==
    LET body == IF s # <<>> /\ Head(s) = 43 THEN Tail(s) ELSE s
    IN  IF body = <<>> \/ \E i \in 1..Len(body) : ~is_ascii_digit(body[i])
        THEN Err("ParseIntError")
        ELSE IF digits_value(body, 0) > 255
             THEN Err("ParseIntError")
             ELSE Ok(digits_value(body, 0))

\* &barcode[i..i + 2] for a 0-based byte offset i: a panic when out of range
slice2(barcode, i) ==
    IF i + 2 > Len(barcode) THEN Panic ELSE Ok(SubSeq(barcode, i + 1, i + 2))

to_codeset_c_lengthfirst(barcode) ==
    IF Len(barcode) % 2 # 0
    THEN Err("InvalidLength")
    ELSE IF ~(\A i \in 1..Len(barcode) : is_ascii_digit(barcode[i]))
    THEN Err("NotANumber")
    ELSE Ok([k \in 1..(Len(barcode) \div 2) |->
                parse_u8(SubSeq(barcode, 2 * k - 1, 2 * k)).val])

to_codeset_c_swapped(barcode) ==
    IF ~(\A i \in 1..Len(barcode) : is_ascii_digit(barcode[i]))
    THEN Err("NotANumber")
    ELSE IF Len(barcode) % 2 # 0
    THEN Err("InvalidLength")
    ELSE Ok([k \in 1..(Len(barcode) \div 2) |->
                parse_u8(<<barcode[2 * k], barcode[2 * k - 1]>>).val])

to_codeset_c(barcode) ==
    IF ~(\A i \in 1..Len(barcode) : is_ascii_digit(barcode[i]))
    THEN Err("NotANumber")
    ELSE IF Len(barcode) % 2 # 0
    THEN Err("InvalidLength")
    ELSE LET starts == {i \in 0..(Len(barcode) - 1) : i % 2 = 0}
             split == [k \in 1..Cardinality(starts) |-> slice2(barcode, 2 * (k - 1))]
             codes == [k \in 1..Len(split) |->
                          IF split[k].tag = "Ok" THEN parse_u8(split[k].val) ELSE Panic]
         IN  IF \E k \in 1..Len(codes) : codes[k].tag # "Ok"
             THEN Panic
             ELSE Ok([k \in 1..Len(codes) |-> codes[k].val])

set_width_p3default2(p, width) ==
    CASE p = "SNBC" ->
            IF width >= 2 /\ width <= 6 THEN Ok(<<29, 119, width>>) ELSE Ok(<<29, 119, 2>>)
      [] p = "P3" ->
            IF width >= 1 /\ width <= 6 THEN Ok(<<29, 119, width>>) ELSE Ok(<<29, 119, 2>>)
      [] p = "Epic" -> Ok(<<29, 119, 1>>)
      [] OTHER -> Err("Io(Unsupported)")

set_width(p, width) ==
    CASE p = "SNBC" ->
            IF width >= 2 /\ width <= 6 THEN Ok(<<29, 119, width>>) ELSE Ok(<<29, 119, 2>>)
      [] p = "P3" ->
            IF width >= 1 /\ width <= 6 THEN Ok(<<29, 119, width>>) ELSE Ok(<<29, 119, 3>>)
      [] p = "Epic" -> Ok(<<29, 119, 1>>)
      [] OTHER -> Err("Io(Unsupported)")

set_height(height) == <<29, 104, AsU8(height)>>

set_text_position(position) ==
    CASE position = "Off" -> <<29, 72, 0>>
      [] position = "Above" -> <<29, 72, 1>>
      [] position = "Below" -> <<29, 72, 2>>
      [] position = "Both" -> <<29, 72, 3>>

set_font(font) ==
    CASE font = "Standard" -> <<29, 102, 0>>
      [] font = "Compressed" -> <<29, 102, 1>>
      [] font = "FontA" -> <<29, 102, 0>>
      [] font = "FontB" -> <<29, 102, 1>>

set_barcode_type_alwaysa(p, kind) ==
    CASE kind = "EAN13" -> <<29, 107, 2>>
      [] kind = "Code128" -> <<29, 107, 73>>
      [] OTHER -> <<29, 107, 2>>

set_barcode_type(p, kind) ==
    CASE kind = "EAN13" -> <<29, 107, 2>>
      [] kind = "Code128" -> IF p = "SNBC" THEN <<29, 107, 73>> ELSE <<29, 107, 8>>
      [] OTHER -> <<29, 107, 2>>

(***************************************************************************)
(* barcode.rs: the selector methods as methods of one Barcode value. Each  *)
(* takes &mut self; encode_selector gives the result and the value of     *)
(* self after the call.                                                    *)
(***************************************************************************)
encode_selector_storing(self, field) ==
    CASE field = "width" ->
            LET r == set_width(self.printer, self.width)
            IN  [ret |-> r,
                 self |-> IF r.tag = "Ok" THEN [self EXCEPT !.width = r.val[3]] ELSE self]
      [] field = "height" -> [ret |-> Ok(set_height(self.height)), self |-> self]
      [] field = "position" ->
            [ret |-> Ok(set_text_position(self.position)), self |-> self]
      [] field = "font" -> [ret |-> Ok(set_font(self.font)), self |-> self]
      [] field = "kind" ->
            [ret |-> Ok(set_barcode_type(self.printer, self.kind)), self |-> self]

\* no method assigns to a field of self
encode_selector(self, field) ==
    CASE field = "width" -> [ret |-> set_width(self.printer, self.width), self |-> self]
      [] field = "height" -> [ret |-> Ok(set_height(self.height)), self |-> self]
      [] field = "position" ->
            [ret |-> Ok(set_text_position(self.position)), self |-> self]
      [] field = "font" -> [ret |-> Ok(set_font(self.font)), self |-> self]
      [] field = "kind" ->
            [ret |-> Ok(set_barcode_type(self.printer, self.kind)), self |-> self]

(***************************************************************************)
(* printer.rs: the transport primitives.                                   *)
(* tr = [failAt |-> k, kind |-> "usb" | "short"] is the behaviour of the   *)
(* bulk endpoint during one call: its k-th write fails (k = 0: none does). *)
(* A reply is [ok |-> FALSE, data |-> <<>>] (the read fails) or            *)
(* [ok |-> TRUE, data |-> bytes] (the device sends these bytes).           *)
(***************************************************************************)
W(buf) == [op |-> "write", buf |-> buf, cap |-> Len(buf)]

R(cap) == [op |-> "read", buf |-> <<>>, cap |-> cap]

Min(a, b) == IF a < b THEN a ELSE b

\* handle.write_bulk for the k-th write of the call
write_bulk(buf, k, tr) ==
    IF tr.failAt = k
    THEN IF tr.kind = "usb"
         THEN Err("Usb")
         ELSE Ok(IF Len(buf) > 0 THEN Len(buf) - 1 ELSE 0)
    ELSE Ok(Len(buf))

write(buf, k, tr) ==
    LET n_bytes == write_bulk(buf, k, tr)
    IN  IF n_bytes.tag = "Err"
        THEN Err("Usb")
        ELSE IF n_bytes.val # Len(buf) THEN Err("Timeout") ELSE Ok(n_bytes.val)

RECURSIVE write_all_nostop(_, _, _, _)
write_all_nostop(bufs, k, tr, n) ==
    IF k > Len(bufs)
    THEN [ret |-> Ok(n), wire |-> [j \in 1..Len(bufs) |-> W(bufs[j])]]
    ELSE LET r == write(bufs[k], k, tr)
         IN  IF r.tag = "Err"
             THEN [ret |-> r, wire |-> [j \in 1..Len(bufs) |-> W(bufs[j])]]
             ELSE write_all_nostop(bufs, k + 1, tr, n + r.val)

\* n += self.write(b)? for each buffer b of bufs, from the k-th on
RECURSIVE write_all(_, _, _, _)
write_all(bufs, k, tr, n) ==
    IF k > Len(bufs)
    THEN [ret |-> Ok(n), wire |-> [j \in 1..Len(bufs) |-> W(bufs[j])]]
    ELSE LET r == write(bufs[k], k, tr)
         IN  IF r.tag = "Err"
             THEN [ret |-> r, wire |-> [j \in 1..k |-> W(bufs[j])]]
             ELSE write_all(bufs, k + 1, tr, n + r.val)

\* handle.read_bulk into buf[off..]: the bytes received are stored from the
\* 0-based offset off on; a failed read leaves the buffer as it was
read_bulk(buf, off, reply) ==
    IF ~reply.ok
    THEN [res |-> Err("Usb"), buf |-> buf]
    ELSE LET transferred == Min(Len(reply.data), Len(buf) - off)
         IN  [res |-> Ok(transferred),
              buf |-> [j \in 1..Len(buf) |->
                          IF j > off /\ j <= off + transferred
                          THEN reply.data[j - off]
                          ELSE buf[j]]]

(***************************************************************************)
(* printer.rs: Printer::barcode.                                           *)
(***************************************************************************)
code128_bytes_evenonly(code) ==
    LET useC == Len(code) % 2 = 0
        converted == to_codeset_c(code)
    IN  IF useC /\ converted.tag # "Ok"
        THEN Panic
        ELSE LET body == IF useC THEN <<123, 67>> \o converted.val
                                 ELSE <<123, 66>> \o code
             IN  Ok(<<AsU8(Len(body))>> \o body)

code128_bytes_digitsonly(code) ==
    LET useC == \A i \in 1..Len(code) : is_ascii_digit(code[i])
        converted == to_codeset_c(code)
    IN  IF useC /\ converted.tag # "Ok"
        THEN Panic
        ELSE LET body == IF useC THEN <<123, 67>> \o converted.val
                                 ELSE <<123, 66>> \o code
             IN  Ok(<<AsU8(Len(body))>> \o body)

\* the payload block: count, '{', codeset selector, payload
code128_bytes(code) ==
    LET useC == Len(code) % 2 = 0 /\ \A i \in 1..Len(code) : is_ascii_digit(code[i])
        converted == to_codeset_c(code)
    IN  IF useC /\ converted.tag # "Ok"
        THEN Panic
        ELSE LET body == IF useC THEN <<123, 67>> \o converted.val
                                 ELSE <<123, 66>> \o code
             IN  Ok(<<AsU8(Len(body))>> \o body)

epic_barcode_header_nolen(code) == <<29, 72, 2, 29, 119, 2, 29, 107, 73>>

\* the first write of the dialect C branch
epic_barcode_header(code) == <<29, 72, 2, 29, 119, 2, 29, 107, 73, AsU8(Len(code))>>

barcode(p, code, kind, position, font, width, height, tr) ==
    IF kind = "Code128" /\ p = "SNBC"
    THEN LET w == set_width(p, width)
         IN  IF w.tag = "Err"
             THEN [ret |-> w, wire |-> <<>>]
             ELSE LET head == <<w.val, set_height(height), set_text_position(position),
                                set_font(font), set_barcode_type(p, kind)>>
                      sent == write_all(head, 1, tr, 0)
                      block == code128_bytes(code)
                  IN  IF sent.ret.tag = "Err"
                      THEN sent
                      ELSE IF block.tag = "Panic"
                      THEN [ret |-> Panic, wire |-> sent.wire]
                      ELSE write_all(Append(head, block.val), 1, tr, 0)
    ELSE IF p = "Epic"
    THEN write_all(<<epic_barcode_header(code), code, <<0>>>>, 1, tr, 0)
    ELSE [ret |-> Err("Unsupported"), wire |-> <<>>]

(***************************************************************************)
(* printer.rs: the operations that write one fixed command, and their      *)
(* chained variants. Each returns [ret, wire] like barcode. A blocking     *)
(* delay of s seconds is logged where it happens.                          *)
(***************************************************************************)
Sleep(s) == [op |-> "sleep", buf |-> <<>>, cap |-> s]

Unsupported == [ret |-> Err("Unsupported"), wire |-> <<>>]

hwinit(tr) == write_all(<<<<27, 64>>>>, 1, tr, 0)

enable_epic(p, tr) ==
    CASE p = "SNBC" -> write_all(<<<<27, 61, 1>>>>, 1, tr, 0)
      [] p = "P3" -> write_all(<<<<27, 61, 1>>>>, 1, tr, 0)
      [] p = "Epic" -> write_all(<<<<27, 61, 1>>>>, 1, tr, 0)
      [] OTHER -> Unsupported

enable(p, tr) ==
    CASE p = "SNBC" -> write_all(<<<<27, 61, 1>>>>, 1, tr, 0)
      [] p = "P3" -> write_all(<<<<27, 61, 1>>>>, 1, tr, 0)
      [] OTHER -> Unsupported

disable(p, tr) ==
    CASE p = "SNBC" -> write_all(<<<<27, 61, 0>>>>, 1, tr, 0)
      [] p = "P3" -> write_all(<<<<27, 61, 2>>>>, 1, tr, 0)
      [] OTHER -> Unsupported

\* let width = if width < 1 { 1 } else { width }; the line, then "\n"
hr(width, tr) ==
    LET w == IF width < 1 THEN 1 ELSE width
    IN  write_all(<<[j \in 1..w |-> 196], <<10>>>>, 1, tr, 0)

\* let n = if n < 1 { 1 } else { n }; "\n".repeat(n)
feed(n, tr) ==
    LET m == IF n < 1 THEN 1 ELSE n
    IN  write_all(<<[j \in 1..m |-> 10]>>, 1, tr, 0)

full_cut_p3(p, tr) ==
    CASE p \in {"SNBC", "Epic", "P3"} -> write_all(<<<<10, 10, 10, 29, 86, 0>>>>, 1, tr, 0)
      [] OTHER -> Unsupported

full_cut(p, tr) ==
    CASE p \in {"SNBC", "Epic"} -> write_all(<<<<10, 10, 10, 29, 86, 0>>>>, 1, tr, 0)
      [] OTHER -> Unsupported

\* the match, then the sleep of 3 s when the dialect is Epic, then res
partial_cut(p, tr) ==
    LET res == CASE p \in {"SNBC", "Epic"} ->
                        write_all(<<<<10, 10, 10, 29, 86, 1>>>>, 1, tr, 0)
                 [] p = "P3" -> write_all(<<<<10, 10, 10, 27, 109>>>>, 1, tr, 0)
                 [] OTHER -> Unsupported
    IN  [ret |-> res.ret,
         wire |-> res.wire \o (IF p = "Epic" THEN <<Sleep(3)>> ELSE <<>>)]

(***************************************************************************)
(* printer.rs: the operations that take a token or an image. A token is a  *)
(* string; Option<&str> is the empty set (None) or a singleton (Some).     *)
(* consts.rs and img.rs are not among the sources: the byte tables are the *)
(* ESC/POS commands their names denote, and the image accessor follows the *)
(* description of the bands.                                               *)
(***************************************************************************)
\* str::to_uppercase, on the tokens the model passes
UpperTable ==
    [s \in {"s8", "d8", "s24", "d24", "lt", "ct", "rt", "a", "b", "c", "lf", "ff",
            "cr", "ht", "vt", "u", "u2", "bu", "bu2", "normal", "zz", "off", "on",
            "thick", "dw", "dh", "qd"} |->
        CASE s = "s8" -> "S8" [] s = "d8" -> "D8" [] s = "s24" -> "S24"
          [] s = "d24" -> "D24" [] s = "lt" -> "LT" [] s = "ct" -> "CT"
          [] s = "rt" -> "RT" [] s = "a" -> "A" [] s = "b" -> "B" [] s = "c" -> "C"
          [] s = "lf" -> "LF" [] s = "ff" -> "FF" [] s = "cr" -> "CR"
          [] s = "ht" -> "HT" [] s = "vt" -> "VT" [] s = "u" -> "U"
          [] s = "u2" -> "U2" [] s = "bu" -> "BU" [] s = "bu2" -> "BU2"
          [] s = "normal" -> "NORMAL" [] s = "zz" -> "ZZ" [] s = "off" -> "OFF"
          [] s = "on" -> "ON" [] s = "thick" -> "THICK" [] s = "dw" -> "DW"
          [] s = "dh" -> "DH" [] s = "qd" -> "QD"]

to_uppercase(s) ==
    CASE s \in DOMAIN UpperTable -> UpperTable[s]
      [] s = "Ct" -> "CT"
      [] s = "Bu" -> "BU"
      [] OTHER -> s

unwrap_or(opt, default) == IF opt = {} THEN default ELSE CHOOSE x \in opt : TRUE

BITMAP_S8 == <<27, 42, 0>>
BITMAP_D8 == <<27, 42, 1>>
BITMAP_S24 == <<27, 42, 32>>
BITMAP_D24 == <<27, 42, 33>>

CTL_LF == <<10>>
CTL_FF == <<12>>
CTL_CR == <<13>>
CTL_HT == <<9>>
CTL_VT == <<11>>
TXT_ALIGN_LT == <<27, 97, 0>>
TXT_ALIGN_CT == <<27, 97, 1>>
TXT_ALIGN_RT == <<27, 97, 2>>
TXT_FONT_A == <<27, 77, 0>>
TXT_FONT_B == <<27, 77, 1>>
TXT_FONT_C == <<27, 77, 2>>
TXT_BOLD_OFF == <<27, 69, 0>>
TXT_BOLD_ON == <<27, 69, 1>>
TXT_UNDERL_OFF == <<27, 45, 0>>
TXT_UNDERL_ON == <<27, 45, 1>>
TXT_UNDERL2_ON == <<27, 45, 2>>

control(ctrl, tr) ==
    LET ctrl_upper == to_uppercase(ctrl)
    IN  CASE ctrl_upper = "LF" -> write_all(<<CTL_LF>>, 1, tr, 0)
          [] ctrl_upper = "FF" -> write_all(<<CTL_FF>>, 1, tr, 0)
          [] ctrl_upper = "CR" -> write_all(<<CTL_CR>>, 1, tr, 0)
          [] ctrl_upper = "HT" -> write_all(<<CTL_HT>>, 1, tr, 0)
          [] ctrl_upper = "VT" -> write_all(<<CTL_VT>>, 1, tr, 0)
          [] OTHER -> Unsupported

align_default(alignment, tr) ==
    LET align_upper == to_uppercase(alignment)
    IN  CASE align_upper = "LT" -> write_all(<<TXT_ALIGN_LT>>, 1, tr, 0)
          [] align_upper = "CT" -> write_all(<<TXT_ALIGN_CT>>, 1, tr, 0)
          [] align_upper = "RT" -> write_all(<<TXT_ALIGN_RT>>, 1, tr, 0)
          [] OTHER -> write_all(<<TXT_ALIGN_LT>>, 1, tr, 0)

align(alignment, tr) ==
    LET align_upper == to_uppercase(alignment)
    IN  CASE align_upper = "LT" -> write_all(<<TXT_ALIGN_LT>>, 1, tr, 0)
          [] align_upper = "CT" -> write_all(<<TXT_ALIGN_CT>>, 1, tr, 0)
          [] align_upper = "RT" -> write_all(<<TXT_ALIGN_RT>>, 1, tr, 0)
          [] OTHER -> [ret |-> Err("InvalidArgument"), wire |-> <<>>]

\* Printer::font; named apart from the font argument of the barcode call
printer_font(family, tr) ==
    LET family_upper == to_uppercase(family)
    IN  CASE family_upper = "A" -> write_all(<<TXT_FONT_A>>, 1, tr, 0)
          [] family_upper = "B" -> write_all(<<TXT_FONT_B>>, 1, tr, 0)
          [] family_upper = "C" -> write_all(<<TXT_FONT_C>>, 1, tr, 0)
          [] OTHER -> [ret |-> Err("InvalidArgument"), wire |-> <<>>]

style_underline_first(kind, tr) ==
    LET kind_upper == to_uppercase(kind)
    IN  CASE kind_upper = "B" -> write_all(<<TXT_UNDERL_OFF, TXT_BOLD_ON>>, 1, tr, 0)
          [] kind_upper = "U" -> write_all(<<TXT_UNDERL_ON, TXT_BOLD_OFF>>, 1, tr, 0)
          [] kind_upper = "U2" -> write_all(<<TXT_UNDERL2_ON, TXT_BOLD_OFF>>, 1, tr, 0)
          [] kind_upper = "BU" -> write_all(<<TXT_UNDERL_ON, TXT_BOLD_ON>>, 1, tr, 0)
          [] kind_upper = "BU2" -> write_all(<<TXT_UNDERL2_ON, TXT_BOLD_ON>>, 1, tr, 0)
          [] OTHER -> write_all(<<TXT_UNDERL_OFF, TXT_BOLD_OFF>>, 1, tr, 0)

\* Ok(self.write(x)? + self.write(y)?): x, then y
style(kind, tr) ==
    LET kind_upper == to_uppercase(kind)
    IN  CASE kind_upper = "B" -> write_all(<<TXT_UNDERL_OFF, TXT_BOLD_ON>>, 1, tr, 0)
          [] kind_upper = "U" -> write_all(<<TXT_BOLD_OFF, TXT_UNDERL_ON>>, 1, tr, 0)
          [] kind_upper = "U2" -> write_all(<<TXT_BOLD_OFF, TXT_UNDERL2_ON>>, 1, tr, 0)
          [] kind_upper = "BU" -> write_all(<<TXT_BOLD_ON, TXT_UNDERL_ON>>, 1, tr, 0)
          [] kind_upper = "BU2" -> write_all(<<TXT_BOLD_ON, TXT_UNDERL2_ON>>, 1, tr, 0)
          [] OTHER -> write_all(<<TXT_BOLD_OFF, TXT_UNDERL_OFF>>, 1, tr, 0)

\* wtr.write_u16::<LittleEndian>(n)
write_u16le(n) == <<n % 256, (n \div 256) % 256>>

\* the command line_space(n) writes
line_space_cmd(n) == IF n \in 0..255 THEN <<27, 51, AsU8(n)>> ELSE <<27, 50>>

line_space(n, tr) == write_all(<<line_space_cmd(n)>>, 1, tr, 0)

\* the byte of 8 rows from row y on (0-based), of an image whose pixels are
\* all set: the rows below the image are padding
band_byte(image, y) ==
    LET rows == {i \in 0..7 : y + i < image.height}
        RECURSIVE sum(_)
        sum(S) == IF S = {} THEN 0
                  ELSE LET i == CHOOSE x \in S : TRUE
                       IN  2 ^ (7 - i) + sum(S \ {i})
    IN  sum(rows)

\* image.bitimage_lines(rows): the bands of this many rows, top to bottom,
\* each column by column with rows / 8 bytes per column
bitimage_lines(image, rows) ==
    LET per == rows \div 8
        count == (image.height + rows - 1) \div rows
    IN  [k \in 1..count |->
            [j \in 1..(image.width * per) |->
                band_byte(image, (k - 1) * rows + 8 * ((j - 1) % per))]]

\* header, column count, payload, feed(1) of each band from the k-th on
RECURSIVE band_writes(_, _, _, _)
band_writes(lines, k, header, n) ==
    IF k > Len(lines)
    THEN <<>>
    ELSE <<header, write_u16le(Len(lines[k]) \div n), lines[k], <<10>>>>
             \o band_writes(lines, k + 1, header, n)

bit_image(image, density_opt, tr) ==
    LET density == unwrap_or(density_opt, "d24")
        density_upper == to_uppercase(density)
        header == CASE density_upper = "S8" -> BITMAP_S8
                    [] density_upper = "D8" -> BITMAP_D8
                    [] density_upper = "S24" -> BITMAP_S24
                    [] OTHER -> BITMAP_D24
        n == IF density = "s8" \/ density = "d8" THEN 1 ELSE 3
    IN  write_all(<<line_space_cmd(0)>>
                      \o band_writes(bitimage_lines(image, n * 8), 1, header, n),
                  1, tr, 0)

(***************************************************************************)
(* printer.rs: text. A content is a sequence of characters (code points);  *)
(* the stream is built with the UTF-8 codec (Printer::new, codec None).    *)
(***************************************************************************)
\* the UTF-8 bytes of one character below U+10000
utf8(c) ==
    IF c < 128 THEN <<c>>
    ELSE IF c < 2048 THEN <<192 + (c \div 64), 128 + (c % 64)>>
    ELSE <<224 + (c \div 4096), 128 + ((c \div 64) % 64), 128 + (c % 64)>>

\* self.codec.encode(content, self.trap): UTF-8 encodes every character
RECURSIVE encode(_)
encode(content) ==
    IF content = <<>>
    THEN Ok(<<>>)
    ELSE Ok(utf8(Head(content)) \o encode(Tail(content)).val)

print(content, tr) ==
    LET rv == encode(content)
    IN  IF rv.tag = "Err"
        THEN [ret |-> Err("Io"), wire |-> <<>>]
        ELSE write_all(<<rv.val>>, 1, tr, 0)

\* format!("{}{}", content, "\n")
println(content, tr) == print(Append(content, 10), tr)

text(content, tr) == println(content, tr)

underline_mode(mode_opt, tr) ==
    LET mode == unwrap_or(mode_opt, "OFF")
        mode_upper == to_uppercase(mode)
    IN  CASE mode_upper = "OFF" -> write_all(<<<<27, 45, 0>>>>, 1, tr, 0)
          [] mode_upper = "ON" -> write_all(<<<<27, 45, 1>>>>, 1, tr, 0)
          [] mode_upper = "THICK" -> write_all(<<<<27, 45, 2>>>>, 1, tr, 0)
          [] OTHER -> write_all(<<<<27, 45, 0>>>>, 1, tr, 0)

char_size(height, tr) == write_all(<<<<29, 33, AsU8(height)>>>>, 1, tr, 0)

TXT_NORMAL == <<27, 33, 0>>
TXT_2HEIGHT == <<27, 33, 16>>
TXT_2WIDTH == <<27, 33, 32>>

size(width, height, tr) ==
    write_all(<<TXT_NORMAL>>
                  \o (IF width = 2 THEN <<TXT_2WIDTH>> ELSE <<>>)
                  \o (IF height = 2 THEN <<TXT_2HEIGHT>> ELSE <<>>),
              1, tr, 0)

CD_KICK_2 == <<27, 112, 0>>
CD_KICK_5 == <<27, 112, 1>>

cashdraw(pin, tr) ==
    write_all(<<IF pin = 5 THEN CD_KICK_5 ELSE CD_KICK_2>>, 1, tr, 0)

write_u8(n, tr) == write_all(<<<<AsU8(n)>>>>, 1, tr, 0)

\* the byte of the 8 pixels from column x on (0-based), of an image whose
\* pixels are all set: the columns right of the image are padding
raster_byte(image, x) ==
    LET cols == {i \in 0..7 : x + i < image.width}
        RECURSIVE sum(_)
        sum(S) == IF S = {} THEN 0
                  ELSE LET i == CHOOSE c \in S : TRUE
                       IN  2 ^ (7 - i) + sum(S \ {i})
    IN  sum(cols)

\* image.get_raster(): the rows, top to bottom, (width + 7) / 8 bytes each
get_raster(image) ==
    LET per == (image.width + 7) \div 8
    IN  [j \in 1..(per * image.height) |-> raster_byte(image, 8 * ((j - 1) % per))]

raster(image, mode_opt, tr) ==
    LET mode_upper == to_uppercase(unwrap_or(mode_opt, "NORMAL"))
        header == CASE mode_upper = "DW" -> <<29, 118, 48, 1>>
                    [] mode_upper = "DH" -> <<29, 118, 48, 2>>
                    [] mode_upper = "QD" -> <<29, 118, 48, 3>>
                    [] OTHER -> <<29, 118, 48, 0>>
    IN  write_all(<<header,
                    write_u16le(((image.width + 7) \div 8) % 65536),
                    write_u16le(image.height % 65536),
                    get_raster(image)>>,
                  1, tr, 0)

\* Ok(()) without touching the transport
flush == [ret |-> Ok("()"), wire |-> <<>>]

chained_always_self(r) == Ok("self")

\* .map(|_| self): the stream when the operation succeeded, else its error
chained(r) == IF r.tag = "Ok" THEN Ok("self") ELSE r

\* the operation named by call, with the arguments of the call
operation(p, call, tr) ==
    CASE call.name = "hwinit" -> hwinit(tr)
      [] call.name = "enable" -> enable(p, tr)
      [] call.name = "disable" -> disable(p, tr)
      [] call.name = "hr" -> hr(call.n, tr)
      [] call.name = "feed" -> feed(call.n, tr)
      [] call.name = "full_cut" -> full_cut(p, tr)
      [] call.name = "partial_cut" -> partial_cut(p, tr)
      [] call.name = "barcode" ->
            barcode(p, call.code, "Code128", "Below", "FontA", 2, 64, tr)
      [] call.name = "align" -> align(call.token, tr)
      [] call.name = "font" -> printer_font(call.token, tr)
      [] call.name = "control" -> control(call.token, tr)
      [] call.name = "style" -> style(call.token, tr)
      [] call.name = "underline_mode" -> underline_mode(call.opt, tr)
      [] call.name = "print" -> print(call.code, tr)
      [] call.name = "println" -> println(call.code, tr)
      [] call.name = "text" -> text(call.code, tr)
      [] call.name = "line_space" -> line_space(call.n, tr)
      [] call.name = "char_size" -> char_size(call.n, tr)
      [] call.name = "size" -> size(call.n, call.m, tr)
      [] call.name = "cashdraw" -> cashdraw(call.n, tr)
      [] call.name = "write_u8" -> write_u8(call.n, tr)
      [] call.name = "bit_image" ->
            bit_image([width |-> call.n, height |-> call.m], call.opt, tr)
      [] call.name = "raster" ->
            raster([width |-> call.n, height |-> call.m], call.opt, tr)

\* the chain_* method named by call: the operation, then .map(|_| self)
chain_call(p, call, tr) ==
    LET r == operation(p, call, tr)
    IN  [ret |-> chained(r.ret), res |-> r.ret, wire |-> r.wire]

(***************************************************************************)
(* printer.rs: the queries. Each writes its command, reads the reply into  *)
(* a zeroed buffer of its own and returns the whole buffer as a string.    *)
(***************************************************************************)
\* the length of the UTF-8 sequence at the head of b, 0 when there is none
utf8_len(b) ==
    LET cont(j, lo, hi) == j <= Len(b) /\ b[j] \in lo..hi
    IN  CASE b[1] < 128 -> 1
          [] b[1] \in 194..223 /\ cont(2, 128, 191) -> 2
          [] b[1] = 224 /\ cont(2, 160, 191) /\ cont(3, 128, 191) -> 3
          [] b[1] \in (225..236) \cup {238, 239}
                /\ cont(2, 128, 191) /\ cont(3, 128, 191) -> 3
          [] b[1] = 237 /\ cont(2, 128, 159) /\ cont(3, 128, 191) -> 3
          [] b[1] = 240 /\ cont(2, 144, 191) /\ cont(3, 128, 191)
                /\ cont(4, 128, 191) -> 4
          [] b[1] \in 241..243 /\ cont(2, 128, 191) /\ cont(3, 128, 191)
                /\ cont(4, 128, 191) -> 4
          [] b[1] = 244 /\ cont(2, 128, 143) /\ cont(3, 128, 191)
                /\ cont(4, 128, 191) -> 4
          [] OTHER -> 0

\* std::str::from_utf8(&buffer): the buffer when it is well-formed UTF-8
RECURSIVE from_utf8(_)
from_utf8(b) ==
    IF b = <<>>
    THEN Ok(<<>>)
    ELSE LET n == utf8_len(b)
         IN  IF n = 0
             THEN Err("Utf8Error")
             ELSE IF from_utf8(SubSeq(b, n + 1, Len(b))).tag = "Err"
                  THEN Err("Utf8Error")
                  ELSE Ok(b)

\* the part the queries share: read_bulk(stat_ep, &mut [0; cap])?, then
\* from_utf8(&buffer).unwrap(), after the command was written
read_value(cmd, cap, reply) ==
    LET rd == read_bulk([j \in 1..cap |-> 0], 0, reply)
    IN  IF rd.res.tag = "Err"
        THEN [ret |-> Err("Usb"), wire |-> <<W(cmd), R(cap)>>]
        ELSE IF from_utf8(rd.buf).tag = "Err"
             THEN [ret |-> Panic, wire |-> <<W(cmd), R(cap)>>]
             ELSE [ret |-> Ok(rd.buf), wire |-> <<W(cmd), R(cap)>>]

\* self.write(cmd).unwrap(), then the read
query(cmd, cap, tr, reply) ==
    IF write(cmd, 1, tr).tag = "Err"
    THEN [ret |-> Panic, wire |-> <<W(cmd)>>]
    ELSE read_value(cmd, cap, reply)

get_serial(p, tr, reply) ==
    IF p = "P3"
    THEN LET w == write(<<28, 234, 82>>, 1, tr)
         IN  IF w.tag = "Err"
             THEN [ret |-> w, wire |-> <<W(<<28, 234, 82>>)>>]
             ELSE read_value(<<28, 234, 82>>, 16, reply)
    ELSE Unsupported

get_cut_count(tr, reply) == query(<<29, 226>>, 16, tr, reply)

get_rom_version(tr, reply) == query(<<29, 73, 3>>, 4, tr, reply)

get_power_count(tr, reply) == query(<<29, 229>>, 8, tr, reply)

get_printed_length(tr, reply) == query(<<29, 227>>, 8, tr, reply)

get_remaining_paper(tr, reply) == query(<<29, 225>>, 8, tr, reply)

set_paper_end_limit(tr) ==
    IF write(<<29, 230, 0, 0>>, 1, tr).tag = "Err"
    THEN [ret |-> Panic, wire |-> <<W(<<29, 230, 0, 0>>)>>]
    ELSE [ret |-> Ok("()"), wire |-> <<W(<<29, 230, 0, 0>>)>>]

paper_loaded(tr, reply) ==
    IF write(<<29, 114, 1>>, 1, tr).tag = "Err"
    THEN [ret |-> Panic, wire |-> <<W(<<29, 114, 1>>)>>]
    ELSE LET rd == read_bulk(<<0>>, 0, reply)
         IN  IF rd.res.tag = "Err"
             THEN [ret |-> Err("Usb"), wire |-> <<W(<<29, 114, 1>>), R(1)>>]
             ELSE [ret |-> Ok(rd.buf[1] = 0), wire |-> <<W(<<29, 114, 1>>), R(1)>>]

\* the query named name
query_call(p, name, tr, reply) ==
    CASE name = "get_serial" -> get_serial(p, tr, reply)
      [] name = "get_cut_count" -> get_cut_count(tr, reply)
      [] name = "get_rom_version" -> get_rom_version(tr, reply)
      [] name = "get_power_count" -> get_power_count(tr, reply)
      [] name = "get_printed_length" -> get_printed_length(tr, reply)
      [] name = "get_remaining_paper" -> get_remaining_paper(tr, reply)
      [] name = "set_paper_end_limit" -> set_paper_end_limit(tr)
      [] name = "paper_loaded" -> paper_loaded(tr, reply)

\* Printer::read(buf): the bytes received, stored in the caller's buffer
read(buf, reply) ==
    LET rd == read_bulk(buf, 0, reply)
    IN  [ret |-> rd.res, buffer |-> rd.buf, wire |-> <<R(Len(buf))>>]

has_asb_capability(p) == p = "SNBC"

(***************************************************************************)
(* printer.rs: Printer::get_status.                                        *)
(* io = [read |-> reply, polls |-> <<poll, ...>>]: the reply to the one    *)
(* dialect A read, and for each dialect C poll [w |-> the write succeeds,  *)
(* r |-> reply].                                                           *)
(***************************************************************************)
OFFLINE_BIT == 3
DOOR_STATUS_BIT == 5
PAPER_FEED_BIT == 6
AUTO_CUTTER_BIT == 3
RECOVERABLE_BIT == 5
AUTOMATIC_RECOVERABLE_BIT == 6
PAPER_NEAR_END_BIT == 0
PAPER_BIT == 2
EPIC_STATUS_BYTE_0 == 0
EPIC_STATUS_BYTE_1 == 1
EPIC_STATUS_BYTE_2 == 2
EPIC_STATUS_OFFLINE_BIT == 3
EPIC_STATUS_COVER_OPEN_BIT == 2
EPIC_STATUS_PAPER_END_BIT == 5
EPIC_STATUS_AUTO_CUTTER_BIT == 3

ZeroBuffer == [j \in 1..16 |-> 0]

\* errors.push(e) under a condition
PushIf(errs, cond, e) == IF cond THEN Append(errs, e) ELSE errs

snbc_decode_offlineonly(b) ==
    LET e1 == IF BitAnd1(Shr(b[1], OFFLINE_BIT)) = 1 THEN <<"Offline">> ELSE <<>>
        e2 == PushIf(e1, BitAnd1(Shr(b[1], DOOR_STATUS_BIT)) = 1, "DoorOpen")
        e3 == PushIf(e2, BitAnd1(Shr(b[1], PAPER_FEED_BIT)) = 1, "PaperFeed")
        e4 == PushIf(e3, BitAnd1(Shr(b[2], AUTO_CUTTER_BIT)) = 1, "AutoCutter")
        e5 == PushIf(e4, BitAnd1(Shr(b[2], RECOVERABLE_BIT)) = 1, "Recoverable")
        e6 == PushIf(e5, BitAnd1(Shr(b[2], AUTOMATIC_RECOVERABLE_BIT)) = 1,
                     "AutomaticallyRecoverable")
        e7 == PushIf(e6, BitAnd3(Shr(b[3], PAPER_NEAR_END_BIT)) = 3, "PaperNearEnd")
        e8 == PushIf(e7, BitAnd3(Shr(b[3], PAPER_BIT)) = 3, "PaperEnd")
    IN  e8

snbc_decode_firstonly(b) ==
    IF BitAnd1(Shr(b[1], OFFLINE_BIT)) = 1 THEN <<"Offline">>
    ELSE IF BitAnd1(Shr(b[1], DOOR_STATUS_BIT)) = 1 THEN <<"Online", "DoorOpen">>
    ELSE <<"Online">>

\* the bit tests of the three status bytes (b is the 16-byte buffer)
snbc_decode(b) ==
    LET e1 == IF BitAnd1(Shr(b[1], OFFLINE_BIT)) = 1 THEN <<"Offline">> ELSE <<"Online">>
        e2 == PushIf(e1, BitAnd1(Shr(b[1], DOOR_STATUS_BIT)) = 1, "DoorOpen")
        e3 == PushIf(e2, BitAnd1(Shr(b[1], PAPER_FEED_BIT)) = 1, "PaperFeed")
        e4 == PushIf(e3, BitAnd1(Shr(b[2], AUTO_CUTTER_BIT)) = 1, "AutoCutter")
        e5 == PushIf(e4, BitAnd1(Shr(b[2], RECOVERABLE_BIT)) = 1, "Recoverable")
        e6 == PushIf(e5, BitAnd1(Shr(b[2], AUTOMATIC_RECOVERABLE_BIT)) = 1,
                     "AutomaticallyRecoverable")
        e7 == PushIf(e6, BitAnd3(Shr(b[3], PAPER_NEAR_END_BIT)) = 3, "PaperNearEnd")
        e8 == PushIf(e7, BitAnd3(Shr(b[3], PAPER_BIT)) = 3, "PaperEnd")
    IN  e8

\* the flags pushed after the four polls (d is data_in)
epic_decode(errs, d) ==
    LET e1 == PushIf(errs, Shr(d[EPIC_STATUS_BYTE_0 + 1], EPIC_STATUS_OFFLINE_BIT) = 1,
                     "Offline")
        e2 == PushIf(e1, Shr(d[EPIC_STATUS_BYTE_1 + 1], EPIC_STATUS_COVER_OPEN_BIT) = 1,
                     "DoorOpen")
        e3 == PushIf(e2, Shr(d[EPIC_STATUS_BYTE_1 + 1], EPIC_STATUS_PAPER_END_BIT) = 1,
                     "PaperEnd")
        e4 == PushIf(e3, Shr(d[EPIC_STATUS_BYTE_2 + 1], EPIC_STATUS_AUTO_CUTTER_BIT) = 1,
                     "AutoCutter")
    IN  e4

RECURSIVE epic_polls_failfast(_, _, _, _, _)
epic_polls_failfast(i, polls, data_in, errs, log) ==
    IF ~(i < 4)
    THEN [data_in |-> data_in, errors |-> errs, wire |-> log]
    ELSE LET cmd == <<27, 64, 16, 4, AsU8(i + 1)>>
             e1 == PushIf(errs, ~polls[i + 1].w, "Communication")
             rd == read_bulk(data_in, i, polls[i + 1].r)
             e2 == IF rd.res.tag = "Ok"
                   THEN PushIf(e1, rd.res.val # 1, "Communication")
                   ELSE Append(e1, "Communication")
         IN  IF e2 # errs
             THEN [data_in |-> rd.buf, errors |-> e2,
                   wire |-> log \o <<W(cmd), R(Len(data_in) - i)>>]
             ELSE epic_polls_failfast(i + 1, polls, rd.buf, e2,
                                      log \o <<W(cmd), R(Len(data_in) - i)>>)

\* while i < 4 { write the poll command; read into data_in[i..]; i += 1 }
RECURSIVE epic_polls(_, _, _, _, _)
epic_polls(i, polls, data_in, errs, log) ==
    IF ~(i < 4)
    THEN [data_in |-> data_in, errors |-> errs, wire |-> log]
    ELSE LET cmd == <<27, 64, 16, 4, AsU8(i + 1)>>
             e1 == PushIf(errs, ~polls[i + 1].w, "Communication")
             rd == read_bulk(data_in, i, polls[i + 1].r)
             e2 == IF rd.res.tag = "Ok"
                   THEN PushIf(e1, rd.res.val # 1, "Communication")
                   ELSE Append(e1, "Communication")
         IN  epic_polls(i + 1, polls, rd.buf, e2,
                        log \o <<W(cmd), R(Len(data_in) - i)>>)

status_result_always_err(errs) == Err(errs)

\* if !errors.is_empty() { return Err(errors); } Ok(())
status_result(errs) == IF errs # <<>> THEN Err(errs) ELSE Ok("()")

snbc_read_failed_continue(b) == <<"Communication">> \o snbc_decode(b)

\* the errors returned when the dialect A read fails
snbc_read_failed(b) == <<"Communication">>

status_unimplemented_polls(p) ==
    [ret |-> status_result(<<>>), errors |-> <<>>,
     buffer |-> ZeroBuffer, wire |-> <<W(<<16, 4, 1>>)>>]

\* SupportedPrinters::P3 => (), SupportedPrinters::Unknown => ()
status_unimplemented(p) ==
    [ret |-> status_result(<<>>), errors |-> <<>>,
     buffer |-> ZeroBuffer, wire |-> <<>>]

get_status(p, io) ==
    CASE p = "SNBC" ->
            LET rd == read_bulk(ZeroBuffer, 0, io.read)
            IN  IF rd.res.tag = "Err"
                THEN [ret |-> Err(snbc_read_failed(rd.buf)),
                      errors |-> snbc_read_failed(rd.buf),
                      buffer |-> rd.buf, wire |-> <<R(16)>>]
                ELSE [ret |-> status_result(snbc_decode(rd.buf)),
                      errors |-> snbc_decode(rd.buf),
                      buffer |-> rd.buf, wire |-> <<R(16)>>]
      [] p = "Epic" ->
            LET polled == epic_polls(0, io.polls, ZeroBuffer, <<>>, <<>>)
                errs == epic_decode(polled.errors, polled.data_in)
            IN  [ret |-> status_result(errs), errors |-> errs,
                 buffer |-> polled.data_in, wire |-> polled.wire]
      [] OTHER -> status_unimplemented(p)

(***************************************************************************)
(* Inputs.                                                                 *)
(***************************************************************************)
\* '0' '1' '2' '3' '4' '9' 'f' 'o'
CodeChars == {48, 49, 50, 51, 52, 57, 102, 111}

Texts == SeqsUpTo(CodeChars, MaxLen)

\* '1' '2' 'a'
BarcodeChars == {49, 50, 97}

\* the lengths around the largest payload block a one-byte count can state
LongCodeLens == {253, 254}

\* 'a' repeated
LongTexts == {[j \in 1..n |-> 97] : n \in LongCodeLens}

BarcodeTexts == SeqsUpTo(BarcodeChars, MaxCodeLen) \cup LongTexts

BarcodeKinds == {"Code128", "EAN13"}

BarcodePositions == {"Off", "Both"}

BarcodeFonts == {"Standard", "FontB"}

BarcodeWidths == {0, 2, 7}

BarcodeHeights == {0, 1, 255}

\* "0123456" and "0123456789023", the texts of the test and of the example
ChainCodes ==
    {<<48, 49, 50, 51, 52, 53, 54>>,
     <<48, 49, 50, 51, 52, 53, 54, 55, 56, 57, 48, 50, 51>>}

\* "Underlined Text" and "Code128", texts of the example and of the test, the
\* empty text, and "\u{e9}", a text whose encoding is not its code points
ChainTexts ==
    {<<85, 110, 100, 101, 114, 108, 105, 110, 101, 100, 32, 84, 101, 120, 116>>,
     <<67, 111, 100, 101, 49, 50, 56>>,
     <<>>,
     <<233>>}

\* a call of a chained method: its name and its arguments, each used where
\* the method has it: the numbers n and m, the text code, the token (&str)
\* and the optional token opt (Option<&str>)
Call(name, n, m, code, token, opt) ==
    [name |-> name, n |-> n, m |-> m, code |-> code, token |-> token, opt |-> opt]

ChainCalls ==
    {Call(nm, 0, 0, <<>>, "", {}) :
        nm \in {"hwinit", "enable", "disable", "full_cut", "partial_cut"}}
    \cup {Call(nm, n, 0, <<>>, "", {}) : nm \in {"hr", "feed"}, n \in {0, 2}}
    \cup {Call("barcode", 0, 0, c, "", {}) : c \in ChainCodes}
    \cup {Call("align", 0, 0, <<>>, t, {}) : t \in {"ct", "zz"}}
    \cup {Call("font", 0, 0, <<>>, "b", {}),
          Call("control", 0, 0, <<>>, "lf", {}),
          Call("style", 0, 0, <<>>, "bu", {})}
    \cup {Call("underline_mode", 0, 0, <<>>, "", o) : o \in {{}, {"thick"}, {"off"}}}
    \cup {Call("text", 0, 0, c, "", {}) : c \in ChainTexts}
    \cup {Call("println", 0, 0, <<>>, "", {}), Call("print", 0, 0, <<233>>, "", {})}
    \cup {Call("line_space", n, 0, <<>>, "", {}) : n \in {-1, 30}}
    \cup {Call("char_size", 17, 0, <<>>, "", {}), Call("write_u8", 7, 0, <<>>, "", {})}
    \cup {Call("size", w, 2, <<>>, "", {}) : w \in {1, 2}}
    \cup {Call("cashdraw", pin, 0, <<>>, "", {}) : pin \in {2, 5}}
    \cup {Call("bit_image", 2, 8, <<>>, "", {}), Call("raster", 9, 1, <<>>, "", {"dw"})}

\* the density tokens given to bit_image
Densities ==
    {{}} \cup {{t} : t \in {"s8", "S8", "d8", "D8", "s24", "S24", "d24", "D24", "zz"}}

\* the heights of the images: one row, one 8-row band, one 24-row band, 30
ImageHeights == {1, 8, 24, 30}

Images == [width : 1..MaxWidth, height : ImageHeights]

\* the tokens given to control, align, font and style
Tokens ==
    {"lt", "LT", "ct", "Ct", "CT", "rt", "a", "A", "b", "B", "c", "C", "lf", "LF",
     "ff", "cr", "ht", "vt", "u", "U", "u2", "U2", "bu", "Bu", "BU", "bu2", "BU2",
     "normal", "NORMAL", "zz", "ZZ", ""}

\* the selector fields of a Barcode value
Fields == {"width", "height", "position", "font", "kind"}

\* the Barcode values built for the dialect p
Barcodes(p) ==
    [printer : {p}, width : BarcodeWidths, height : BarcodeHeights,
     font : BarcodeFonts, kind : BarcodeKinds, position : BarcodePositions]

\* no result yet
NotCalled == [tag |-> "None", val |-> <<>>]

Faults ==
    {[failAt |-> 0, kind |-> "none"]}
        \cup [failAt : 1..MaxFailAt, kind : {"usb", "short"}]

\* "The quick brown fox jumps over the lazy dog"
FoxText ==
    <<84, 104, 101, 32, 113, 117, 105, 99, 107, 32, 98, 114, 111, 119,
      110, 32, 102, 111, 120, 32, 106, 117, 109, 112, 115, 32, 111, 118,
      101, 114, 32, 116, 104, 101, 32, 108, 97, 122, 121, 32, 100, 111,
      103>>

\* the chain of main in examples/simple.rs, on a P3 stream: ten calls, then
\* flush
example_simple ==
    [printer |-> "P3",
     calls |->
        <<Call("hwinit", 0, 0, <<>>, "", {}),
          Call("align", 0, 0, <<>>, "ct", {}),
          Call("underline_mode", 0, 0, <<>>, "", {"thick"}),
          Call("text", 0, 0,
               <<85, 110, 100, 101, 114, 108, 105, 110, 101, 100, 32, 84, 101, 120,
                 116>>, "", {}),
          Call("underline_mode", 0, 0, <<>>, "", {"off"}),
          Call("text", 0, 0, FoxText, "", {}),
          Call("feed", 1, 0, <<>>, "", {}),
          Call("barcode", 0, 0,
               <<48, 49, 50, 51, 52, 53, 54, 55, 56, 57, 48, 50, 51>>, "", {}),
          Call("feed", 5, 0, <<>>, "", {}),
          Call("partial_cut", 0, 0, <<>>, "", {})>>]

\* the chain of the test simple in tests/simple.rs, on an SNBC stream
test_simple ==
    [printer |-> "SNBC",
     calls |->
        <<Call("hwinit", 0, 0, <<>>, "", {}),
          Call("align", 0, 0, <<>>, "ct", {}),
          Call("underline_mode", 0, 0, <<>>, "", {"thick"}),
          Call("text", 0, 0, <<67, 111, 100, 101, 49, 50, 56>>, "", {}),
          Call("underline_mode", 0, 0, <<>>, "", {"off"}),
          Call("feed", 1, 0, <<>>, "", {}),
          Call("barcode", 0, 0, <<48, 49, 50, 51, 52, 53, 54>>, "", {}),
          Call("feed", 5, 0, <<>>, "", {}),
          Call("partial_cut", 0, 0, <<>>, "", {})>>]

\* the chains the repository makes
Chains == [example |-> example_simple, test |-> test_simple]

\* the faults that can happen during a call: the transport can fail only at
\* a write the call makes
FaultsOf(p, call) ==
    {tr \in Faults :
        tr.failAt <= Len(operation(p, call, [failAt |-> 0, kind |-> "none"]).wire)}

NoReply == [ok |-> FALSE, data |-> <<>>]

\* the queries
Queries ==
    {"get_serial", "get_cut_count", "get_rom_version", "get_power_count",
     "get_printed_length", "get_remaining_paper", "set_paper_end_limit",
     "paper_loaded"}

\* what the device answers a query with: nothing, no byte, "12", "0", a NUL,
\* a byte that is no UTF-8, "1\u{e9}" and "111\u{e9}"
QueryReplies ==
    {NoReply} \cup
    {[ok |-> TRUE, data |-> d] :
        d \in {<<>>, <<49, 50>>, <<48>>, <<0>>, <<255>>, <<49, 195, 169>>,
               <<49, 49, 49, 195, 169>>}}

\* the buffers given to write: none, one byte, the status-push enable command
WriteBuffers == {<<>>, <<7>>, <<29, 97, 1>>}

\* the faults of a call that makes one write
OneWriteFaults == {tr \in Faults : tr.failAt <= 1}

\* the values the device sends as the j-th byte (1-based) of a dialect A reply
SnbcByte(j) ==
    CASE j = 1 -> BytesOver({3, 5, 6, 7})
      [] j = 2 -> BytesOver({3, 5, 6, 7})
      [] j = 3 -> BytesOver({0, 1, 2, 3, 7})
      [] OTHER -> {0, 255}

\* the replies of exactly n bytes
RECURSIVE SnbcData(_)
SnbcData(n) ==
    IF n = 0 THEN {<<>>} ELSE {Append(d, b) : d \in SnbcData(n - 1), b \in SnbcByte(n)}

SnbcReplies ==
    {NoReply} \cup {[ok |-> TRUE, data |-> d] : d \in UNION {SnbcData(n) : n \in 0..MaxReply}}

\* the status bytes a dialect C device answers a poll with
EpicBytes == {0, 8, 36}

\* a reply to one poll: nothing, or the status byte sent 1..MaxXfer times
EpicReplies ==
    {NoReply, [ok |-> TRUE, data |-> <<>>]} \cup
    {[ok |-> TRUE, data |-> [j \in 1..n |-> b]] : n \in 1..MaxXfer, b \in EpicBytes}

EpicPolls == [1..4 -> [w : BOOLEAN, r : EpicReplies]]

\* what a device of another dialect would answer a status read with
OtherReplies ==
    {NoReply, [ok |-> TRUE, data |-> <<>>], [ok |-> TRUE, data |-> <<8, 32, 12, 0>>]}

StatusIo ==
    CASE printer = "SNBC" -> {[read |-> r, polls |-> <<>>] : r \in SnbcReplies}
      [] printer = "Epic" -> {[read |-> NoReply, polls |-> ps] : ps \in EpicPolls}
      [] OTHER -> {[read |-> r, polls |-> <<>>] : r \in OtherReplies}

(***************************************************************************)
(* The state machine: a Printer constructed for one dialect, then any      *)
(* sequence of calls. The calls are synchronous: one starts when the       *)
(* stream is idle and ends in a state that holds its result, and Return    *)
(* hands the result to the caller. The stream keeps nothing but its        *)
(* dialect from one call to the next.                                      *)
(***************************************************************************)
Idle ==
    /\ op = "idle"
    /\ args = [none |-> TRUE]
    /\ ret = Ok("Printer")
    /\ wire = <<>>
    /\ errors = <<>>
    /\ buffer = ZeroBuffer

Init ==
    /\ printer \in SupportedPrinters
    /\ Idle

\* the call returns to its caller
Return ==
    /\ op # "idle"
    /\ op' = "idle"
    /\ args' = [none |-> TRUE]
    /\ ret' = Ok("Printer")
    /\ wire' = <<>>
    /\ errors' = <<>>
    /\ buffer' = ZeroBuffer
    /\ UNCHANGED printer

\* Barcode::to_codeset_c(barcode)
ToCodesetC ==
    /\ op = "idle"
    /\ \E bc \in Texts :
        /\ op' = "to_codeset_c"
        /\ args' = [barcode |-> bc]
        /\ ret' = to_codeset_c(bc)
        /\ wire' = <<>>
        /\ errors' = <<>>
        /\ buffer' = ZeroBuffer
        /\ UNCHANGED printer

\* Barcode { printer, width, .. }.set_width()
SetWidth ==
    /\ op = "idle"
    /\ \E width \in 0..255 :
        /\ op' = "set_width"
        /\ args' = [width |-> width]
        /\ ret' = set_width(printer, width)
        /\ wire' = <<>>
        /\ errors' = <<>>
        /\ buffer' = ZeroBuffer
        /\ UNCHANGED printer

\* Barcode { printer, kind, .. }.set_barcode_type()
SetBarcodeType ==
    /\ op = "idle"
    /\ \E kind \in BarcodeType :
        /\ op' = "set_barcode_type"
        /\ args' = [kind |-> kind]
        /\ ret' = Ok(set_barcode_type(printer, kind))
        /\ wire' = <<>>
        /\ errors' = <<>>
        /\ buffer' = ZeroBuffer
        /\ UNCHANGED printer

\* Printer::barcode(code, kind, position, font, width, height)
BarcodeCall ==
    /\ op = "idle"
    /\ \E code \in BarcodeTexts, kind \in BarcodeKinds, position \in BarcodePositions,
       font \in BarcodeFonts, width \in BarcodeWidths, height \in BarcodeHeights,
       tr \in Faults :
        \E r \in {barcode(printer, code, kind, position, font, width, height, tr)} :
            /\ op' = "barcode"
            /\ args' = [code |-> code, kind |-> kind, position |-> position,
                        font |-> font, width |-> width, height |-> height, tr |-> tr]
            /\ ret' = r.ret
            /\ wire' = r.wire
            /\ errors' = <<>>
            /\ buffer' = ZeroBuffer
            /\ UNCHANGED printer

\* one more chained call: the first on the idle stream, a later one on the
\* stream the call before it returned
ChainCall ==
    /\ \/ op = "idle"
       \/ op = "chain" /\ ret.tag = "Ok" /\ args.chain = "any" /\ args.n < MaxChain
    /\ \E call \in ChainCalls :
        \E tr \in FaultsOf(printer, call) :
        \E r \in {chain_call(printer, call, tr)} :
            /\ op' = "chain"
            /\ args' = [call |-> call, tr |-> tr,
                        n |-> IF op = "idle" THEN 1 ELSE args.n + 1,
                        mark |-> Len(wire), res |-> r.res, chain |-> "any"]
            /\ ret' = r.ret
            /\ wire' = wire \o r.wire
            /\ errors' = <<>>
            /\ buffer' = ZeroBuffer
            /\ UNCHANGED printer

\* the next call of one of the chains the repository makes: the first call
\* on an idle stream, the others on the stream the call before returned
SimpleChain ==
    \E s \in DOMAIN Chains :
        /\ printer = Chains[s].printer
        /\ \/ op = "idle"
           \/ /\ op = "chain"
              /\ ret.tag = "Ok"
              /\ args.chain = s
              /\ args.n < Len(Chains[s].calls)
        /\ \E call \in {Chains[s].calls[IF op = "idle" THEN 1 ELSE args.n + 1]} :
            \E tr \in FaultsOf(printer, call) :
            \E r \in {chain_call(printer, call, tr)} :
                /\ op' = "chain"
                /\ args' = [call |-> call, tr |-> tr,
                            n |-> IF op = "idle" THEN 1 ELSE args.n + 1,
                            mark |-> Len(wire), res |-> r.res, chain |-> s]
                /\ ret' = r.ret
                /\ wire' = wire \o r.wire
                /\ errors' = <<>>
                /\ buffer' = ZeroBuffer
                /\ UNCHANGED printer

\* Printer::bit_image(image, density)
BitImage ==
    /\ op = "idle"
    /\ \E image \in Images, density \in Densities, tr \in Faults :
        \E r \in {bit_image(image, density, tr)} :
            /\ op' = "bit_image"
            /\ args' = [image |-> image, density |-> density, tr |-> tr]
            /\ ret' = r.ret
            /\ wire' = r.wire
            /\ errors' = <<>>
            /\ buffer' = ZeroBuffer
            /\ UNCHANGED printer

\* Printer::control(ctrl)
Control ==
    /\ op = "idle"
    /\ \E token \in Tokens, tr \in Faults :
        \E r \in {control(token, tr)} :
            /\ op' = "control"
            /\ args' = [token |-> token, tr |-> tr]
            /\ ret' = r.ret
            /\ wire' = r.wire
            /\ errors' = <<>>
            /\ buffer' = ZeroBuffer
            /\ UNCHANGED printer

\* Printer::align(alignment)
Align ==
    /\ op = "idle"
    /\ \E token \in Tokens, tr \in Faults :
        \E r \in {align(token, tr)} :
            /\ op' = "align"
            /\ args' = [token |-> token, tr |-> tr]
            /\ ret' = r.ret
            /\ wire' = r.wire
            /\ errors' = <<>>
            /\ buffer' = ZeroBuffer
            /\ UNCHANGED printer

\* Printer::font(family)
FontCall ==
    /\ op = "idle"
    /\ \E token \in Tokens, tr \in Faults :
        \E r \in {printer_font(token, tr)} :
            /\ op' = "font"
            /\ args' = [token |-> token, tr |-> tr]
            /\ ret' = r.ret
            /\ wire' = r.wire
            /\ errors' = <<>>
            /\ buffer' = ZeroBuffer
            /\ UNCHANGED printer

\* Printer::style(kind)
Style ==
    /\ op = "idle"
    /\ \E token \in Tokens, tr \in Faults :
        \E r \in {style(token, tr)} :
            /\ op' = "style"
            /\ args' = [token |-> token, tr |-> tr]
            /\ ret' = r.ret
            /\ wire' = r.wire
            /\ errors' = <<>>
            /\ buffer' = ZeroBuffer
            /\ UNCHANGED printer

\* one more selector method called on the same Barcode value: the first
\* call builds the value
Encode ==
    /\ \/ op = "idle"
       \/ op = "encode" /\ args.n < MaxEncode
    /\ \E field \in Fields,
          bc \in IF op = "idle" THEN Barcodes(printer) ELSE {args.bc} :
        \E r \in {encode_selector(bc, field)} :
            /\ op' = "encode"
            /\ args' = [bc0 |-> IF op = "idle" THEN bc ELSE args.bc0,
                        bc |-> r.self,
                        field |-> field,
                        seen |-> IF op = "idle"
                                 THEN [f \in Fields |-> NotCalled]
                                 ELSE [args.seen EXCEPT ![args.field] = ret],
                        n |-> IF op = "idle" THEN 1 ELSE args.n + 1]
            /\ ret' = r.ret
            /\ wire' = <<>>
            /\ errors' = <<>>
            /\ buffer' = ZeroBuffer
            /\ UNCHANGED printer

\* Printer::get_status()
GetStatus ==
    /\ op = "idle"
    /\ \E io \in StatusIo :
        \E r \in {get_status(printer, io)} :
            /\ op' = "get_status"
            /\ args' = io
            /\ ret' = r.ret
            /\ wire' = r.wire
            /\ errors' = r.errors
            /\ buffer' = r.buffer
            /\ UNCHANGED printer

\* any operation that has a chained form, called on its own
OperationCall ==
    /\ op = "idle"
    /\ \E call \in ChainCalls :
        \E tr \in FaultsOf(printer, call) :
        \E r \in {operation(printer, call, tr)} :
            /\ op' = "operation"
            /\ args' = [call |-> call, tr |-> tr]
            /\ ret' = r.ret
            /\ wire' = r.wire
            /\ errors' = <<>>
            /\ buffer' = ZeroBuffer
            /\ UNCHANGED printer

\* Printer::write(buf)
WriteCall ==
    /\ op = "idle"
    /\ \E buf \in WriteBuffers, tr \in OneWriteFaults :
        /\ op' = "write"
        /\ args' = [buf |-> buf, tr |-> tr]
        /\ ret' = write(buf, 1, tr)
        /\ wire' = <<W(buf)>>
        /\ errors' = <<>>
        /\ buffer' = ZeroBuffer
        /\ UNCHANGED printer

\* Printer::read(buf), buf a zeroed buffer of the caller
ReadCall ==
    /\ op = "idle"
    /\ \E reply \in QueryReplies :
        \E r \in {read(ZeroBuffer, reply)} :
            /\ op' = "read"
            /\ args' = [reply |-> reply]
            /\ ret' = r.ret
            /\ wire' = r.wire
            /\ errors' = <<>>
            /\ buffer' = r.buffer
            /\ UNCHANGED printer

\* Printer::flush(), on an idle stream or on the stream a chain returned
Flush ==
    /\ \/ op = "idle"
       \/ op = "chain" /\ ret.tag = "Ok"
    /\ op' = "flush"
    /\ args' = [none |-> TRUE]
    /\ ret' = flush.ret
    /\ wire' = wire \o flush.wire
    /\ errors' = <<>>
    /\ buffer' = ZeroBuffer
    /\ UNCHANGED printer

\* Printer::has_asb_capability()
HasAsbCapability ==
    /\ op = "idle"
    /\ op' = "has_asb_capability"
    /\ args' = [none |-> TRUE]
    /\ ret' = Ok(has_asb_capability(printer))
    /\ wire' = <<>>
    /\ errors' = <<>>
    /\ buffer' = ZeroBuffer
    /\ UNCHANGED printer

\* Printer::get_serial(), get_cut_count(), get_rom_version(), ...
Query ==
    /\ op = "idle"
    /\ \E q \in Queries, tr \in OneWriteFaults, reply \in QueryReplies :
        \E r \in {query_call(printer, q, tr, reply)} :
            /\ op' = "query"
            /\ args' = [name |-> q, tr |-> tr, reply |-> reply]
            /\ ret' = r.ret
            /\ wire' = r.wire
            /\ errors' = <<>>
            /\ buffer' = ZeroBuffer
            /\ UNCHANGED printer

Next ==
    ToCodesetC \/ SetWidth \/ SetBarcodeType \/ BarcodeCall \/ ChainCall
        \/ BitImage \/ Control \/ Align \/ FontCall \/ Style \/ Encode
        \/ GetStatus \/ OperationCall \/ WriteCall \/ ReadCall \/ Flush
        \/ HasAsbCapability \/ Query \/ SimpleChain \/ Return

Spec == Init /\ [][Next]_vars

\* the encoder functions of barcode.rs alone
NextEncoder == ToCodesetC \/ SetWidth \/ SetBarcodeType \/ Return

SpecEncoder == Init /\ [][NextEncoder]_vars

\* the barcode operation alone
NextBarcode == BarcodeCall \/ Return

SpecBarcode == Init /\ [][NextBarcode]_vars

\* chains of chained calls alone, ended by flush or left as they are
NextStream == ChainCall \/ SimpleChain \/ Flush \/ Return

SpecStream == Init /\ [][NextStream]_vars

\* the bit-image operation alone
NextImage == BitImage \/ Return

SpecImage == Init /\ [][NextImage]_vars

\* the operations that take a token alone
NextToken == Control \/ Align \/ FontCall \/ Style \/ Return

SpecToken == Init /\ [][NextToken]_vars

\* the selector methods of one Barcode value alone
NextSelectors == Encode \/ Return

SpecSelectors == Init /\ [][NextSelectors]_vars

\* the Code128 encoding: the encoder and the barcode operation that calls it
NextCode128 == ToCodesetC \/ BarcodeCall \/ Return

SpecCode128 == Init /\ [][NextCode128]_vars

\* the status query alone
NextStatus == GetStatus \/ Return

SpecStatus == Init /\ [][NextStatus]_vars

\* the calls that move bytes over the transport: write and read themselves,
\* the operations built on write, and the status query built on the read
NextTransfer ==
    WriteCall \/ ReadCall \/ BarcodeCall \/ ChainCall \/ GetStatus \/ Return

SpecTransfer == Init /\ [][NextTransfer]_vars

TypeOK ==
    /\ printer \in SupportedPrinters
    /\ ret.tag \in {"Ok", "Err", "Panic"}
    /\ Len(buffer) = 16

(***************************************************************************)
(* Vocabulary of the properties.                                           *)
(***************************************************************************)
ToSet(s) == {s[i] : i \in DOMAIN s}

AllDigits(t) == \A i \in 1..Len(t) : t[i] \in 48..57

Digit(t, i) == t[i] - 48

\* bit k of byte b is set
BitSet(b, k) == (b \div (2 ^ k)) % 2 = 1

\* the two decimal digits of each byte, as text
RECURSIVE PairsToText(_)
PairsToText(bytes) ==
    IF bytes = <<>>
    THEN <<>>
    ELSE <<48 + (Head(bytes) \div 10), 48 + (Head(bytes) % 10)>> \o PairsToText(Tail(bytes))

\* the bytes of all writes of the call, in order
RECURSIVE Stream(_)
Stream(log) ==
    IF log = <<>>
    THEN <<>>
    ELSE (IF Head(log).op = "write" THEN Head(log).buf ELSE <<>>) \o Stream(Tail(log))

\* the parameter bytes n of every selector 0x1D c n in the stream
SelectorParams(bytes, c) ==
    {bytes[j + 2] : j \in {i \in 1..(Len(bytes) - 2) : bytes[i] = 29 /\ bytes[i + 1] = c}}

Code128OnSnbc == op = "barcode" /\ printer = "SNBC" /\ args.kind = "Code128"

\* the chained call named nm has just been made
Chained(nm) == op = "chain" /\ args.call.name = nm

\* the transport entries of the last chained call a, in the log w
OwnOf(w, a) == SubSeq(w, a.mark + 1, Len(w))

\* the buffers written, in order, among the entries of log
WritesOf(log) ==
    LET ws == SelectSeq(log, LAMBDA e : e.op = "write")
    IN  [j \in 1..Len(ws) |-> ws[j].buf]

\* the buffers the chained call writes on dialect p when no write fails
AllWrites(p, call) ==
    WritesOf(chain_call(p, call, [failAt |-> 0, kind |-> "none"]).wire)

\* the transport did not fail during the last chained call
NoFault == args.tr.failAt = 0

\* the transport cut one of the writes ws of the call short: it took fewer
\* bytes than the buffer holds
CutShort(ws) ==
    /\ args.tr.kind = "short"
    /\ args.tr.failAt \in 1..Len(ws)
    /\ ws[args.tr.failAt] # <<>>

\* a dialect C barcode call that returned Ok
EpicBarcodeOk == op = "barcode" /\ printer = "Epic" /\ ret.tag = "Ok"

CodeCCall == op = "to_codeset_c"

SnbcStatusRead == op = "get_status" /\ printer = "SNBC" /\ args.read.ok

EpicStatus == op = "get_status" /\ printer = "Epic"

\* poll k of a dialect C status query failed to write / to read one byte
PollWriteFailed(k) == ~args.polls[k].w

PollReadFailed(k) == ~args.polls[k].r.ok \/ Len(args.polls[k].r.data) # 1

(***************************************************************************)
(* Properties.                                                             *)
(***************************************************************************)

\* C1: on dialect A a Code128 call that gets as far as its payload block
\* selects Codeset C (0x43, the digit pairs packed one byte each) exactly
\* when the text has even length and only ASCII digits, and Codeset B (0x42,
\* the text bytes unchanged) otherwise: the block is a function of the text
\* alone, whatever the other arguments and whatever was called before.
C1_CodesetIsFunctionOfText ==
    Code128OnSnbc =>
        /\ args.tr.failAt \notin 1..5 => Len(wire) = 6
        /\ Len(wire) = 6 =>
              LET block == wire[6].buf
                  payload == SubSeq(block, 4, Len(block))
              IN  IF Len(args.code) % 2 = 0 /\ AllDigits(args.code)
                  THEN /\ block[3] = 67
                       /\ payload = [k \in 1..(Len(args.code) \div 2) |->
                                        10 * Digit(args.code, 2 * k - 1)
                                            + Digit(args.code, 2 * k)]
                  ELSE /\ block[3] = 66
                       /\ payload = args.code

C1_Witness ==
    /\ Code128OnSnbc
    /\ args.code = <<49, 50>>
    /\ Len(wire) = 6
    /\ wire[6].buf = <<3, 123, 67, 12>>

\* C2: for a text of even length made of ASCII digits, to_codeset_c returns
\* len/2 bytes, byte k being 10*digit(2k) + digit(2k+1) (0-based digits, left
\* to right), each within 0..99; "00" gives [0], "01" gives [1], "1234" gives
\* [12, 34]; and the two decimal digits of each byte give the text back.
C2_PairsPacked ==
    (CodeCCall /\ Len(args.barcode) % 2 = 0 /\ AllDigits(args.barcode)) =>
        /\ ret.tag = "Ok"
        /\ Len(ret.val) = Len(args.barcode) \div 2
        /\ \A k \in 1..Len(ret.val) :
              /\ ret.val[k] = 10 * Digit(args.barcode, 2 * k - 1) + Digit(args.barcode, 2 * k)
              /\ ret.val[k] \in 0..99
        /\ PairsToText(ret.val) = args.barcode
        /\ args.barcode = <<48, 48>> => ret.val = <<0>>
        /\ args.barcode = <<48, 49>> => ret.val = <<1>>
        /\ args.barcode = <<49, 50, 51, 52>> => ret.val = <<12, 34>>

C2_Witness ==
    /\ CodeCCall
    /\ args.barcode = <<49, 50, 51, 52>>
    /\ ret = Ok(<<12, 34>>)

\* C3: to_codeset_c fails with NotANumber when some character is not an ASCII
\* digit, whatever the length ("foo"); fails with InvalidLength when all are
\* digits and the length is odd ("123"); succeeds otherwise; an error carries
\* no bytes.
C3_ErrorCases ==
    CodeCCall =>
        /\ ~AllDigits(args.barcode) => ret = Err("NotANumber")
        /\ (AllDigits(args.barcode) /\ Len(args.barcode) % 2 = 1) => ret = Err("InvalidLength")
        /\ (AllDigits(args.barcode) /\ Len(args.barcode) % 2 = 0) => ret.tag = "Ok"
        /\ ret.tag # "Ok" => ret \in {Err("NotANumber"), Err("InvalidLength")}
        /\ args.barcode = <<102, 111, 111>> => ret = Err("NotANumber")
        /\ args.barcode = <<49, 50, 51>> => ret = Err("InvalidLength")

C3_Witness ==
    /\ CodeCCall
    /\ args.barcode = <<102, 111, 111>>
    /\ ret = Err("NotANumber")

\* C4: on dialect A, after a successful status read, the returned flags are
\* exactly those of the bit tests on bytes 0..2 of the buffer, all of them at
\* once and each once; byte 3 plays no part. Bytes 0b00101000, 0, 0 give
\* exactly {Offline, DoorOpen}.
C4_SnbcFlags ==
    SnbcStatusRead =>
        LET b0 == buffer[1]
            b1 == buffer[2]
            b2 == buffer[3]
            expected ==
                (IF BitSet(b0, 3) THEN {"Offline"} ELSE {"Online"})
                    \cup (IF BitSet(b0, 5) THEN {"DoorOpen"} ELSE {})
                    \cup (IF BitSet(b0, 6) THEN {"PaperFeed"} ELSE {})
                    \cup (IF BitSet(b1, 3) THEN {"AutoCutter"} ELSE {})
                    \cup (IF BitSet(b1, 5) THEN {"Recoverable"} ELSE {})
                    \cup (IF BitSet(b1, 6) THEN {"AutomaticallyRecoverable"} ELSE {})
                    \cup (IF b2 % 4 = 3 THEN {"PaperNearEnd"} ELSE {})
                    \cup (IF (b2 \div 4) % 4 = 3 THEN {"PaperEnd"} ELSE {})
        IN  /\ \A j \in 1..16 :
                  buffer[j] = IF j <= Len(args.read.data) THEN args.read.data[j] ELSE 0
            /\ ret = Err(errors)
            /\ ToSet(errors) = expected
            /\ Len(errors) = Cardinality(expected)
            /\ (b0 = 40 /\ b1 = 0 /\ b2 = 0) => ToSet(errors) = {"Offline", "DoorOpen"}

C4_Witness ==
    /\ SnbcStatusRead
    /\ buffer[1] = 40 /\ buffer[2] = 0 /\ buffer[3] = 0 /\ buffer[4] = 255
    /\ ret = Err(<<"Offline", "DoorOpen">>)

\* C5: on dialect C, when all four polls succeed, Offline is reported iff bit 3
\* of poll byte 0 is set, DoorOpen iff bit 2 of poll byte 1, PaperEnd iff bit 5
\* of poll byte 1, AutoCutter iff bit 3 of poll byte 2, whatever the other
\* bits; [0x08, 0x24, 0x08, 0x00] gives {Offline, DoorOpen, PaperEnd, AutoCutter}.
C5_EpicBitTests ==
    (EpicStatus /\ \A k \in 1..4 : ~PollWriteFailed(k) /\ ~PollReadFailed(k)) =>
        LET byte(k) == args.polls[k].r.data[1]
        IN  ToSet(errors) =
                (IF BitSet(byte(1), 3) THEN {"Offline"} ELSE {})
                    \cup (IF BitSet(byte(2), 2) THEN {"DoorOpen"} ELSE {})
                    \cup (IF BitSet(byte(2), 5) THEN {"PaperEnd"} ELSE {})
                    \cup (IF BitSet(byte(3), 3) THEN {"AutoCutter"} ELSE {})

\* C6: on dialect C a status query makes exactly four polls in order, poll k
\* writing 1B 40 10 04 k and then reading; each failed write and each failed
\* or not-one-byte read appends one Communication error, no failure keeps a
\* later poll from being made, and the query ends after the fourth poll.
C6_FourPolls ==
    EpicStatus =>
        /\ Len(wire) = 8
        /\ \A k \in 1..4 :
              /\ wire[2 * k - 1] = W(<<27, 64, 16, 4, k>>)
              /\ wire[2 * k].op = "read"
        /\ Cardinality({i \in 1..Len(errors) : errors[i] = "Communication"}) =
              Cardinality({k \in 1..4 : PollWriteFailed(k)})
                  + Cardinality({k \in 1..4 : PollReadFailed(k)})
        /\ \A k \in 1..4 :
              (PollWriteFailed(k) \/ PollReadFailed(k)) => "Communication" \in ToSet(errors)
        /\ ret.tag \in {"Ok", "Err"}

C6_Witness ==
    /\ EpicStatus
    /\ PollWriteFailed(1) /\ PollReadFailed(1)
    /\ ~PollWriteFailed(4) /\ ~PollReadFailed(4)
    /\ Len(wire) = 8
    /\ wire[7] = W(<<27, 64, 16, 4, 4>>)

\* C7: on every dialect and whatever the transport does, a status query
\* returns Ok(()) or Err of a non-empty list; it returns Ok exactly when
\* nothing (no flag, no Communication error) was collected.
C7_OkOrNonEmptyErr ==
    op = "get_status" =>
        /\ ret.tag \in {"Ok", "Err"}
        /\ ret.tag = "Err" => (ret.val = errors /\ Len(ret.val) > 0)
        /\ ret.tag = "Ok" <=> errors = <<>>

C7_Witness ==
    /\ EpicStatus
    /\ \A k \in 1..4 : ~PollWriteFailed(k) /\ ~PollReadFailed(k)
    /\ ret = Ok("()")

\* C8: on dialect A, when the status read fails, the query returns the error
\* list [Communication] and nothing decoded from the buffer.
C8_SnbcReadFailure ==
    (op = "get_status" /\ printer = "SNBC" /\ ~args.read.ok) =>
        ret = Err(<<"Communication">>)

C8_Witness ==
    /\ op = "get_status"
    /\ printer = "SNBC"
    /\ ~args.read.ok
    /\ ret = Err(<<"Communication">>)

\* C9: every barcode call that writes its command sequence carries the width
\* byte the encoder's set_width defines for the dialect (A: the request if in
\* 2..6, else 2; C: its fixed width) and a height byte within 1..255.
C9_WidthHeightClamped ==
    (op = "barcode" /\ ret.tag = "Ok") =>
        LET bytes == Stream(wire)
            clamped == CASE printer = "SNBC" ->
                                IF args.width \in 2..6 THEN args.width ELSE 2
                         [] printer = "P3" ->
                                IF args.width \in 1..6 THEN args.width ELSE 3
                         [] OTHER -> set_width(printer, args.width).val[3]
        IN  /\ SelectorParams(bytes, 119) = {clamped}
            /\ SelectorParams(bytes, 104) # {}
            /\ SelectorParams(bytes, 104) \subseteq 1..255

\* C10: set_width returns [0x1d, 0x77, w]; on dialect A w is the request if
\* 2 <= request <= 6 and 2 otherwise, on dialect B the request if
\* 1 <= request <= 6 and 3 otherwise, on dialect C one value for every
\* request; on the Unknown dialect it fails with Unsupported and no bytes.
C10_SetWidth ==
    op = "set_width" =>
        CASE printer = "SNBC" ->
                ret = Ok(<<29, 119, IF args.width \in 2..6 THEN args.width ELSE 2>>)
          [] printer = "P3" ->
                ret = Ok(<<29, 119, IF args.width \in 1..6 THEN args.width ELSE 3>>)
          [] printer = "Epic" ->
                ret = Ok(<<29, 119, 1>>)
          [] OTHER ->
                ret = Err("Io(Unsupported)")

C10_Witness ==
    /\ op = "set_width"
    /\ printer = "P3"
    /\ args.width = 0
    /\ ret = Ok(<<29, 119, 3>>)

\* C11: on dialect A a Code128 call writes the width, height, HRI-position,
\* font and symbology selectors in this order and then one payload block
\* whose first byte, the length prefix, is the number of bytes that follow
\* it in the block, for every text length.
C11_LengthPrefix ==
    (Code128OnSnbc /\ ret.tag = "Ok") =>
        /\ Len(wire) = 6
        /\ wire[1].buf[1] = 29 /\ wire[1].buf[2] = 119
        /\ wire[2].buf[1] = 29 /\ wire[2].buf[2] = 104
        /\ wire[3].buf[1] = 29 /\ wire[3].buf[2] = 72
        /\ wire[4].buf[1] = 29 /\ wire[4].buf[2] = 102
        /\ wire[5].buf = <<29, 107, 73>>
        /\ wire[6].buf[3] \in {66, 67}
        /\ wire[6].buf[1] = Len(wire[6].buf) - 1

\* C12 as stated: on dialect C the stream of a barcode call is the header of
\* the HRI-position, width and symbology selectors alone, directly followed
\* by the text bytes and one NUL byte.
C12_HeaderThenText ==
    EpicBarcodeOk =>
        Stream(wire) = <<29, 72, 2, 29, 119, 2, 29, 107, 73>> \o args.code \o <<0>>

\* C12: on dialect C a barcode call writes the HRI-position, width and
\* symbology selectors and one length byte (the text length modulo 256) in
\* one write, then the text bytes, then exactly one NUL byte: three writes,
\* no codeset selector, whatever the symbology, font, width and height
\* arguments are.
C12_HeaderLengthText ==
    EpicBarcodeOk =>
        /\ Len(wire) = 3
        /\ wire[1].buf = <<29, 72, 2, 29, 119, 2, 29, 107, 73, Len(args.code) % 256>>
        /\ wire[2].buf = args.code
        /\ wire[3].buf = <<0>>
        /\ Stream(wire) = wire[1].buf \o args.code \o <<0>>

C12_Witness ==
    /\ EpicBarcodeOk
    /\ args.code = <<49, 97>>
    /\ args.kind = "EAN13"
    /\ Stream(wire) = <<29, 72, 2, 29, 119, 2, 29, 107, 73, 2, 49, 97, 0>>

\* C14: the symbology selector is the three bytes 0x1D 0x6B sym, where sym
\* is 0x02 for EAN13, 0x49 for Code128 on dialect A and 0x08 for Code128 on
\* every other dialect, and 0x02 for each of the eleven other symbologies;
\* the selector is always produced, never an error.
C14_SymbologyTable ==
    op = "set_barcode_type" =>
        /\ ret.tag = "Ok"
        /\ ret.val = <<29, 107,
                       IF args.kind = "Code128"
                       THEN (IF printer = "SNBC" THEN 73 ELSE 8)
                       ELSE 2>>

C14_Witness ==
    /\ op = "set_barcode_type"
    /\ printer = "P3"
    /\ args.kind = "Code128"
    /\ ret = Ok(<<29, 107, 8>>)

\* C13: on dialect B a chained Code128 barcode call that meets no transport
\* failure returns the stream and has written a barcode command sequence, so
\* that a call chained after it is made; and the barcode operation returns
\* Unsupported on the Unknown dialect only.
C13_P3BarcodeChains ==
    Chained("barcode") =>
        /\ (printer = "P3" /\ NoFault) =>
              /\ ret = Ok("self")
              /\ WritesOf(OwnOf(wire, args)) # <<>>
        /\ args.res = Err("Unsupported") => printer = "Unknown"

\* C15: every chained call returns the stream exactly when its operation
\* returned Ok and otherwise returns the error of the operation; after a
\* chained call that failed no further call of the chain is made, so nothing
\* more is written; and a call that failed on the transport made its failing
\* write once, as its last write.
C15_FailFast ==
    [][/\ op' = "chain" =>
            /\ (ret' = Ok("self")) <=> (args'.res.tag = "Ok")
            /\ args'.res.tag # "Ok" => ret' = args'.res
            /\ args'.res \in {Err("Usb"), Err("Timeout")} =>
                  Len(WritesOf(OwnOf(wire', args'))) = args'.tr.failAt
       /\ (op = "chain" /\ args.res.tag # "Ok") => op' # "chain"]_vars

C15_Witness ==
    /\ Chained("feed")
    /\ args.n = 2
    /\ args.res = Err("Timeout")
    /\ ret = Err("Timeout")
    /\ WritesOf(wire) = <<<<27, 64>>, <<10, 10>>>>

\* C16: a transfer that moves fewer bytes than requested is a Timeout and
\* never a result: a write that the transport cut short makes write, and
\* every operation that made it, return Timeout; a read that brought fewer
\* bytes than the 16 of its buffer returns Timeout; and a dialect A status
\* read that brought fewer bytes than the 16 of its buffer yields an error
\* without any status flag decoded from the buffer.
C16_ShortTransferIsTimeout ==
    /\ (op = "write" /\ CutShort(<<args.buf>>)) => ret = Err("Timeout")
    /\ (op = "barcode" /\ CutShort(WritesOf(wire))) => ret = Err("Timeout")
    /\ (op = "chain" /\ CutShort(WritesOf(OwnOf(wire, args)))) =>
          ret = Err("Timeout")
    /\ (op = "read" /\ args.reply.ok /\ Len(args.reply.data) < Len(ZeroBuffer)) =>
          ret = Err("Timeout")
    /\ (SnbcStatusRead /\ Len(args.read.data) < Len(ZeroBuffer)) =>
          /\ ret.tag = "Err"
          /\ ToSet(errors) \subseteq {"Communication"}

\* C17: each chained call appends its transport entries to those of the
\* calls before it, which stay as they were, so the bytes handed to the
\* transport are the concatenation of the bytes of the calls in call order.
\* A call that returns Ok has handed over all of its buffers, in order. When
\* the k-th write of a call fails, the call returns the error having handed
\* over its first k buffers, the k-th being the failed attempt, and none of
\* its later ones.
C17_CallOrder ==
    [][op' = "chain" =>
          LET own == WritesOf(OwnOf(wire', args'))
              all == AllWrites(printer, args'.call)
              k == args'.tr.failAt
          IN  /\ args'.mark = Len(wire)
              /\ SubSeq(wire', 1, Len(wire)) = wire
              /\ Stream(wire') = Stream(wire) \o Stream(OwnOf(wire', args'))
              /\ args'.res.tag = "Ok" => own = all
              /\ k \in 1..Len(all) =>
                    /\ args'.res \in {Err("Usb"), Err("Timeout")}
                    /\ own = SubSeq(all, 1, k)]_vars

C17_Witness ==
    /\ Chained("barcode")
    /\ printer = "SNBC"
    /\ args.n = 2
    /\ args.mark = 2
    /\ args.tr.failAt = 3
    /\ args.res = Err("Usb")
    /\ WritesOf(OwnOf(wire, args)) = <<<<29, 119, 2>>, <<29, 104, 64>>, <<29, 72, 2>>>>

\* C18 as stated: enable and disable write one 3-byte command on the
\* dialects A, B and C, and return Unsupported, writing nothing, on the
\* Unknown dialect only.
C18_OnOffEveryKnownDialect ==
    (Chained("enable") \/ Chained("disable")) =>
        LET own == WritesOf(OwnOf(wire, args))
        IN  IF printer \in {"SNBC", "P3", "Epic"}
            THEN /\ Len(own) = 1
                 /\ Len(own[1]) = 3
                 /\ NoFault => args.res = Ok(3)
            ELSE args.res = Err("Unsupported") /\ own = <<>>

\* C18: enable writes 1B 3D 01 on the dialects A and B; disable writes
\* 1B 3D 00 on dialect A and 1B 3D 02 on dialect B; both return the 3 bytes
\* written when the transport takes them. On dialect C and on the Unknown
\* dialect both return Unsupported and write nothing.
C18_OnOffDialectsAB ==
    (Chained("enable") \/ Chained("disable")) =>
        LET own == WritesOf(OwnOf(wire, args))
            n == IF args.call.name = "enable"
                 THEN 1
                 ELSE (IF printer = "SNBC" THEN 0 ELSE 2)
        IN  IF printer \in {"SNBC", "P3"}
            THEN /\ own = <<<<27, 61, n>>>>
                 /\ NoFault => args.res = Ok(3)
            ELSE args.res = Err("Unsupported") /\ own = <<>>

C18_Witness ==
    /\ Chained("disable")
    /\ printer = "P3"
    /\ NoFault
    /\ ret = Ok("self")
    /\ WritesOf(OwnOf(wire, args)) = <<<<27, 61, 2>>>>

\* C19: a full cut writes 0A 0A 0A 1D 56 00 on the dialects A and C and
\* returns Unsupported, writing nothing, on dialect B and on Unknown; a
\* partial cut writes 0A 0A 0A 1D 56 01 on the dialects A and C and
\* 0A 0A 0A 1B 6D on dialect B, and returns Unsupported, writing nothing, on
\* Unknown. Where the command is written, it is the only write of the call.
C19_CutsDialectGated ==
    /\ Chained("full_cut") =>
          LET own == WritesOf(OwnOf(wire, args))
          IN  IF printer \in {"SNBC", "Epic"}
              THEN /\ own = <<<<10, 10, 10, 29, 86, 0>>>>
                   /\ NoFault => args.res = Ok(6)
              ELSE args.res = Err("Unsupported") /\ own = <<>>
    /\ Chained("partial_cut") =>
          LET own == WritesOf(OwnOf(wire, args))
          IN  CASE printer \in {"SNBC", "Epic"} ->
                      /\ own = <<<<10, 10, 10, 29, 86, 1>>>>
                      /\ NoFault => args.res = Ok(6)
                [] printer = "P3" ->
                      /\ own = <<<<10, 10, 10, 27, 109>>>>
                      /\ NoFault => args.res = Ok(5)
                [] OTHER -> args.res = Err("Unsupported") /\ own = <<>>

C19_Witness ==
    /\ Chained("full_cut")
    /\ printer = "P3"
    /\ args.n = 2
    /\ ret = Err("Unsupported")
    /\ Len(wire) = args.mark

\* C20: on dialect C a cut, full or partial, that wrote its command blocks
\* for the fixed delay after the write and before it returns, so the delay
\* is the last entry of the call, right after the command; on the dialects A
\* and B a cut blocks for no delay.
C20_DelayAfterCut ==
    ((Chained("full_cut") \/ Chained("partial_cut")) /\ args.res.tag = "Ok") =>
        LET own == OwnOf(wire, args)
        IN  IF printer = "Epic"
            THEN /\ Len(own) = 2
                 /\ own[1].op = "write"
                 /\ own[2] = Sleep(3)
            ELSE \A j \in DOMAIN own : own[j].op # "sleep"

\* a status query on a dialect other than A and C
OtherStatus == op = "get_status" /\ printer \in {"P3", "Unknown"}

\* C21 as stated: on dialect B and on Unknown a status query writes the
\* status command to the transport and returns Ok with no flags.
C21_OtherIssuesCommand ==
    OtherStatus =>
        /\ ret = Ok("()")
        /\ errors = <<>>
        /\ \E j \in DOMAIN wire : wire[j].op = "write"

\* C21: on dialect B and on Unknown a status query hands nothing to the
\* transport, neither a command nor a read, and returns Ok with no flags,
\* whatever the device would have answered.
C21_OtherSilentOk ==
    OtherStatus =>
        /\ ret = Ok("()")
        /\ errors = <<>>
        /\ wire = <<>>
        /\ buffer = ZeroBuffer

C21_Witness ==
    /\ OtherStatus
    /\ printer = "P3"
    /\ args.read = [ok |-> TRUE, data |-> <<8, 32, 12, 0>>]
    /\ ret = Ok("()")
    /\ wire = <<>>

\* C22: a bit_image call that returns Ok has written the zero line-spacing
\* command once, first, and then for each band, top to bottom, the density
\* header of the token (matched without regard to case), the little-endian
\* column count, the payload of n bytes per column and one line feed; the
\* bands have n * 8 rows, n = 1 when the header is a single-density one (S8,
\* D8) and n = 3 when it is a triple-density one (S24, D24, the default).
C22_BandFraming ==
    (op = "bit_image" /\ ret.tag = "Ok") =>
        LET ws == WritesOf(wire)
            token == to_uppercase(unwrap_or(args.density, "d24"))
            header == CASE token = "S8" -> BITMAP_S8
                        [] token = "D8" -> BITMAP_D8
                        [] token = "S24" -> BITMAP_S24
                        [] OTHER -> BITMAP_D24
            n == IF header \in {BITMAP_S8, BITMAP_D8} THEN 1 ELSE 3
            bands == (args.image.height + n * 8 - 1) \div (n * 8)
        IN  /\ ws[1] = <<27, 51, 0>>
            /\ \A j \in 2..Len(ws) : ws[j] # <<27, 51, 0>>
            /\ Len(ws) = 1 + 4 * bands
            /\ \A k \in 1..bands :
                  /\ ws[4 * k - 2] = header
                  /\ Len(ws[4 * k]) = args.image.width * n
                  /\ ws[4 * k - 1] = <<(Len(ws[4 * k]) \div n) % 256,
                                       (Len(ws[4 * k]) \div n) \div 256>>
                  /\ ws[4 * k + 1] = <<10>>

\* the tokens of the inputs that an operation recognizes, in any case
Recognized(o) ==
    CASE o = "align" -> {"lt", "LT", "ct", "Ct", "CT", "rt"}
      [] o = "font" -> {"a", "A", "b", "B", "c", "C"}
      [] o = "control" -> {"lf", "LF", "ff", "cr", "ht", "vt"}

\* C23: align and font with an unrecognized token return InvalidArgument,
\* control with an unrecognized token returns Unsupported, and in each case
\* nothing is handed to the transport; a recognized token, in any case,
\* makes exactly one write, and the call succeeds when the transport takes
\* the write.
C23_TokensRejectedUnwritten ==
    op \in {"align", "font", "control"} =>
        IF args.token \in Recognized(op)
        THEN /\ Len(wire) = 1
             /\ wire[1].op = "write"
             /\ args.tr.failAt # 1 => ret = Ok(Len(wire[1].buf))
        ELSE /\ ret = Err(IF op = "control" THEN "Unsupported" ELSE "InvalidArgument")
             /\ wire = <<>>

C23_Witness ==
    /\ op = "align"
    /\ args.token = "zz"
    /\ args.tr.failAt = 0
    /\ ret = Err("InvalidArgument")
    /\ wire = <<>>

\* C24: style makes two writes unless the transport fails the first: one
\* bold command and one underline command. The token "BU", in any case,
\* writes bold-on and then underline-on; every token that is none of B, U,
\* U2, BU, BU2, "NORMAL" among them, writes bold-off and then underline-off.
\* No token makes style fail: it returns Ok when the transport takes both
\* writes, and otherwise the transport's error.
C24_StyleTwoCommands ==
    op = "style" =>
        LET ws == WritesOf(wire)
        IN  /\ ret.tag = "Ok" \/ ret \in {Err("Usb"), Err("Timeout")}
            /\ args.tr.failAt \notin {1, 2} => ret = Ok(6)
            /\ args.tr.failAt # 1 =>
                  /\ Len(ws) = 2
                  /\ \E j \in 1..2 :
                        /\ ws[j] \in {TXT_BOLD_ON, TXT_BOLD_OFF}
                        /\ ws[3 - j] \in {TXT_UNDERL_OFF, TXT_UNDERL_ON, TXT_UNDERL2_ON}
                  /\ args.token \in {"bu", "Bu", "BU"} =>
                        ws = <<TXT_BOLD_ON, TXT_UNDERL_ON>>
                  /\ args.token \notin {"b", "B", "u", "U", "u2", "U2", "bu", "Bu",
                                        "BU", "bu2", "BU2"} =>
                        ws = <<TXT_BOLD_OFF, TXT_UNDERL_OFF>>

C24_Witness ==
    /\ op = "style"
    /\ args.token = "BU"
    /\ ret = Ok(6)
    /\ WritesOf(wire) = <<<<27, 69, 1>>, <<27, 45, 1>>>>

\* C25: whatever selector methods were called on a Barcode value before,
\* and in whatever order, the value is the one that was built, a method
\* called again returns what it returned before, and a method returns what
\* it returns when it is the first one called on the value.
C25_SelectorsIdempotent ==
    op = "encode" =>
        /\ args.bc = args.bc0
        /\ args.seen[args.field] # NotCalled => ret = args.seen[args.field]
        /\ ret = encode_selector(args.bc0, args.field).ret

C25_Witness ==
    /\ op = "encode"
    /\ printer = "SNBC"
    /\ args.n = 2
    /\ args.field = "width"
    /\ args.bc.width = 7
    /\ args.seen["width"] = Ok(<<29, 119, 2>>)
    /\ ret = Ok(<<29, 119, 2>>)

\* C26: on dialect A a status query whose read succeeded returns Err with a
\* list that holds exactly one entry among Online and Offline, so it never
\* returns Ok; when the first three status bytes are zero the result is
\* Err of Online alone.
C26_OnlineXorOffline ==
    SnbcStatusRead =>
        /\ ret = Err(errors)
        /\ Cardinality({j \in DOMAIN errors : errors[j] \in {"Online", "Offline"}}) = 1
        /\ (\A j \in 1..3 : buffer[j] = 0) => ret = Err(<<"Online">>)

C26_Witness ==
    /\ SnbcStatusRead
    /\ args.read.data = <<0, 0, 0, 0>>
    /\ ret = Err(<<"Online">>)

\* the flags decoded from the status byte of poll j of a dialect C query
FlagsOfPoll(j) ==
    CASE j = 1 -> {"Offline"}
      [] j = 2 -> {"DoorOpen", "PaperEnd"}
      [] j = 3 -> {"AutoCutter"}
      [] OTHER -> {}

\* C27: on dialect C a flag of poll j is reported only when the read of
\* poll j brought exactly one byte and that byte is the one the flag was
\* decoded from: neither a longer reply to another poll nor a failed poll
\* puts a flag of poll j into the result.
C27_FlagsFromOwnPoll ==
    EpicStatus =>
        \A j \in 1..4 :
            (FlagsOfPoll(j) \cap ToSet(errors) # {}) =>
                /\ ~PollReadFailed(j)
                /\ buffer[j] = args.polls[j].r.data[1]

\* C28: no barcode call and no to_codeset_c call ends in a panic. A dialect
\* A Code128 call that selects Codeset C has a text of even length and of
\* ASCII digits only, which to_codeset_c accepts, and every pair of the
\* text becomes one byte from 0 to 99.
C28_NoPanic ==
    /\ op = "barcode" => ret.tag # "Panic"
    /\ (Code128OnSnbc /\ Len(wire) = 6 /\ wire[6].buf[3] = 67) =>
          /\ AllDigits(args.code) /\ Len(args.code) % 2 = 0
          /\ Len(wire[6].buf) = 3 + Len(args.code) \div 2
          /\ \A j \in 4..Len(wire[6].buf) : wire[6].buf[j] \in 0..99
    /\ op = "to_codeset_c" =>
          /\ ret.tag # "Panic"
          /\ ret.tag = "Ok" => \A j \in DOMAIN ret.val : ret.val[j] \in 0..99

C28_Witness ==
    /\ Code128OnSnbc
    /\ args.code = <<50, 49>>
    /\ args.tr.failAt = 0
    /\ ret = Ok(19)
    /\ wire[6].buf = <<3, 123, 67, 21>>

====
